---- MODULE Spec2Model ----
(***************************************************************************)
(* Fish Tank Hunt: the session state of main.js, the frame callback of     *)
(* gameLoop.js (update, render, frame), the spawners of spawning.js,       *)
(* lifeFish.js and turtle.js, the hit resolution of shooting.js, the        *)
(* lifecycle operations of lifecycle.js, the input handlers of input.js,   *)
(* the tile map of tilemap.js and maps.js, and the score store of          *)
(* api/server/main.go.                                                     *)
(*                                                                         *)
(* Time is counted in whole milliseconds (the code keeps its timers in     *)
(* seconds as floats; dt here is the same quantity times 1000).  Positions *)
(* are whole pixels.  Every handler is an operator from a state record to  *)
(* the set of state records it can leave behind, one per outcome of the    *)
(* rand() draws it makes; an action picks one and commits it.              *)
(***************************************************************************)
EXTENDS Integers, Sequences, FiniteSets, TLC

(***************************************************************************)
(* Program constants kept at their source values.                          *)
(***************************************************************************)
MAX_DT_MS == 50
SHOT_RATE_LIMIT_MS == 90
MAX_LIVES == 3
BOUNDS_MARGIN == 80
SPAWN_OFFSET == 60
HUD_HEIGHT == 80
HIT_PADDING == 10
SINK_DISTANCE == 90
TURTLE_PENALTY == 30
MISS_PENALTY == 10
FISH_WIDTH == 80
FISH_HEIGHT == 60
TURTLE_WIDTH == 150
TURTLE_HEIGHT == 120
INITIAL_FPS == 60
STORY_FIRST_THRESHOLD == 50000
TILE_SIZE == 96
MAP_COUNT == 4

(***************************************************************************)
(* Bounds of the model.  The durations and the speed of the source are     *)
(* scaled so that a level lasts a few clamped frames and an entity crosses *)
(* the world in a few frames: LEVEL_DURATION is 30 s in constants.js,      *)
(* COMBO_WINDOW 2.5 s, the bonus delay 3..8 s, the hazard delay 5..12 s,   *)
(* the spawn interval 1..2 s, PARROT_BASE_SPEED 90 px/s, MAX_LEVEL 10 and  *)
(* BASE_MAX_FISH 5.  The removal animation (220 ms, 260 ms, 500..850 ms)   *)
(* is scaled the same way.  The maps of maps.js are grids of 30 by 20.     *)
(***************************************************************************)
GAME_DURATION_S == 300
LEVEL_DURATION == 300
MAX_LEVEL == 2
COMBO_WINDOW == 150
BASE_SPAWN_MIN == 50
BASE_SPAWN_MAX == 100
SPAWN_MIN_FLOOR == 20
SPAWN_MAX_FLOOR == 45
INITIAL_SPAWN_TIMER == 50
INITIAL_BUBBLE_TIMER == 100
BUBBLE_INTERVAL == 100
BASE_MAX_FISH == 2
PARROT_BASE_SPEED == 1100
LIFE_DELAY_MIN == 50
LIFE_DELAY_SPAN == 50
TURTLE_DELAY_MIN == 50
TURTLE_DELAY_SPAN == 200
CAPTURE_DELAY == 50
CAPTURE_DURATION == 50
SINK_DURATION == 100
GAMEOVER_OVERLAY_DELAY == 50
ShootUntil == 350
PlayUntil == 450
MenuUntil == 450
WatchUntil == 700
PauseUntil == 250
RestartUntil == 400
StallUntil == 250
MaxEntities == 5
MaxShots == 3
MaxPending == 3
MaxOps == 3
MaxStalls == 1
MapCols == 2
MapRows == 2
MaxTileEdits == 1
MaxMapEdits == 2
NumClients == 2
MaxRequests == 2

(***************************************************************************)
(* Inputs: the values rand() and the host are taken to produce.            *)
(***************************************************************************)
SideDraws == {TRUE, FALSE}
LaneDraws == {0}
IntervalDraws == {0}
LifeDelayDraws == {1}
TurtleDelayDraws == {0, 1}
TurtleDirs == {1}
FrameGaps == {50, 100}
SmallWorld == [width |-> 100, height |-> 80]
NarrowWorld == [width |-> 90, height |-> 200]
WideWorld == [width |-> 1200, height |-> 80]
SpeedPcts == {160}
MixedSpeedPcts == {80, 160}
LifeSpeedPcts == {100}
WindowSizes == {SmallWorld, NarrowWorld, WideWorld}
Viewports ==
    {[x |-> 0, y |-> 0, width |-> 192, height |-> 192],
     [x |-> 96, y |-> 0, width |-> 96, height |-> 96],
     [x |-> 500, y |-> 500, width |-> 100, height |-> 100]}
TileIds == {0, 3}
NoPoint == [x |-> 0 - 1000, y |-> 0 - 1000]
ScoreVals == {10, 20}
PageArgs ==
    {[page |-> 1, size |-> 5], [page |-> 2, size |-> 1], [page |-> 0, size |-> 0]}
StoredFiles ==
    {<< >>,
     <<[ID |-> 1, Score |-> 20]>>,
     <<[ID |-> 3, Score |-> 10], [ID |-> 1, Score |-> 10]>>}

\* What the environment may still do in a run: accepted shots, menu
\* operations (pause, resume, restart, return to menu, new run), and the
\* instant up to which the host is followed.  busy is set by a menu
\* operation until the next host frame: the player does not operate two
\* controls within one frame of a running host.  stalls is the number of
\* host frames that may come late (a hidden tab), speeds the speed factors
\* rand() deals to the fish of the session.
Budgets ==
    {[shots |-> MaxShots, ops |-> 0, until |-> ShootUntil, busy |-> FALSE,
      stalls |-> 0, speeds |-> SpeedPcts],
     [shots |-> 1, ops |-> 0, until |-> PlayUntil, busy |-> FALSE,
      stalls |-> 0, speeds |-> SpeedPcts],
     [shots |-> 0, ops |-> MaxOps, until |-> MenuUntil, busy |-> FALSE,
      stalls |-> MaxStalls, speeds |-> SpeedPcts],
     [shots |-> 0, ops |-> 0, until |-> PlayUntil, busy |-> FALSE,
      stalls |-> 0, speeds |-> MixedSpeedPcts],
     [shots |-> 1, ops |-> 2, until |-> PauseUntil, busy |-> FALSE,
      stalls |-> 0, speeds |-> SpeedPcts]}

\* A player who only watches, for the whole of a game.
WatchBudget ==
    [shots |-> 0, ops |-> 0, until |-> WatchUntil, busy |-> FALSE,
     stalls |-> 0, speeds |-> SpeedPcts]

\* A player who pauses and restarts once, into the second level.
RestartBudget ==
    [shots |-> 0, ops |-> 2, until |-> RestartUntil, busy |-> FALSE,
     stalls |-> 0, speeds |-> SpeedPcts]

\* A player who shoots while the host comes late once, so that a removal
\* animation is still under way when the rate limit lets the next shot pass.
StallBudget ==
    [shots |-> 2, ops |-> 0, until |-> StallUntil, busy |-> FALSE,
     stalls |-> MaxStalls, speeds |-> SpeedPcts]

\* The game area, the player, and whether the tileset that initializeTileMap
\* awaits will be generated, as a session finds them.  The wide area takes a
\* fish longer to cross than a whole game lasts.
Setups ==
    {[world |-> SmallWorld, budget |-> b, tiles |-> FALSE] : b \in Budgets}
    \cup {[world |-> WideWorld, budget |-> WatchBudget, tiles |-> t] : t \in BOOLEAN}
    \cup {[world |-> SmallWorld, budget |-> RestartBudget, tiles |-> TRUE]}
    \cup {[world |-> SmallWorld, budget |-> StallBudget, tiles |-> FALSE]}

Min(a, b) == IF a < b THEN a ELSE b
Max(a, b) == IF a > b THEN a ELSE b

VARIABLES
    entities, nextEntityId, running, paused, timeLeft, score, lives,
    lastFrameTs, spawnTimer, bubbleTimer, lastShotMs, level, levelTimer,
    combo, maxCombo, comboTimer, totalShots, totalHits, fishCaught,
    missedShots, fps, world, lifeFishManager, turtleManager,
    tileMapRenderer, tileset, now, rafNow, rafNext, overlays, gameoverTimer,
    updatesThisFrame, budget, ev, store, calls

\* The variables of the game in the browser; store and calls are the score
\* server's.
SessionVars ==
    <<entities, nextEntityId, running, paused, timeLeft, score, lives,
      lastFrameTs, spawnTimer, bubbleTimer, lastShotMs, level, levelTimer,
      combo, maxCombo, comboTimer, totalShots, totalHits, fishCaught,
      missedShots, fps, world, lifeFishManager, turtleManager,
      tileMapRenderer, tileset, now, rafNow, rafNext, overlays, gameoverTimer,
      updatesThisFrame, budget, ev>>

vars == <<entities, nextEntityId, running, paused, timeLeft, score, lives,
          lastFrameTs, spawnTimer, bubbleTimer, lastShotMs, level, levelTimer,
          combo, maxCombo, comboTimer, totalShots, totalHits, fishCaught,
          missedShots, fps, world, lifeFishManager, turtleManager,
          tileMapRenderer, tileset, now, rafNow, rafNext, overlays,
          gameoverTimer, updatesThisFrame, budget, ev, store, calls>>

(***************************************************************************)
(* The state as one record, and its commitment to the variables.           *)
(***************************************************************************)
Cur ==
    [entities |-> entities, nextEntityId |-> nextEntityId, running |-> running,
     paused |-> paused, timeLeft |-> timeLeft, score |-> score, lives |-> lives,
     lastFrameTs |-> lastFrameTs, spawnTimer |-> spawnTimer,
     bubbleTimer |-> bubbleTimer, lastShotMs |-> lastShotMs, level |-> level,
     levelTimer |-> levelTimer, combo |-> combo, maxCombo |-> maxCombo,
     comboTimer |-> comboTimer, totalShots |-> totalShots,
     totalHits |-> totalHits, fishCaught |-> fishCaught,
     missedShots |-> missedShots, fps |-> fps, world |-> world,
     lifeFishManager |-> lifeFishManager, turtleManager |-> turtleManager,
     tileMapRenderer |-> tileMapRenderer, tileset |-> tileset,
     now |-> now, rafNow |-> rafNow, rafNext |-> rafNext,
     overlays |-> overlays, gameoverTimer |-> gameoverTimer,
     updatesThisFrame |-> updatesThisFrame, budget |-> budget, ev |-> ev]

Commit(R) ==
    /\ entities' = R.entities
    /\ nextEntityId' = R.nextEntityId
    /\ running' = R.running
    /\ paused' = R.paused
    /\ timeLeft' = R.timeLeft
    /\ score' = R.score
    /\ lives' = R.lives
    /\ lastFrameTs' = R.lastFrameTs
    /\ spawnTimer' = R.spawnTimer
    /\ bubbleTimer' = R.bubbleTimer
    /\ lastShotMs' = R.lastShotMs
    /\ level' = R.level
    /\ levelTimer' = R.levelTimer
    /\ combo' = R.combo
    /\ maxCombo' = R.maxCombo
    /\ comboTimer' = R.comboTimer
    /\ totalShots' = R.totalShots
    /\ totalHits' = R.totalHits
    /\ fishCaught' = R.fishCaught
    /\ missedShots' = R.missedShots
    /\ fps' = R.fps
    /\ world' = R.world
    /\ lifeFishManager' = R.lifeFishManager
    /\ turtleManager' = R.turtleManager
    /\ tileMapRenderer' = R.tileMapRenderer
    /\ tileset' = R.tileset
    /\ now' = R.now
    /\ rafNow' = R.rafNow
    /\ rafNext' = R.rafNext
    /\ overlays' = R.overlays
    /\ gameoverTimer' = R.gameoverTimer
    /\ updatesThisFrame' = R.updatesThisFrame
    /\ budget' = R.budget
    /\ ev' = R.ev
    /\ UNCHANGED <<store, calls>>

(***************************************************************************)
(* Managers as constructed.                                                *)
(***************************************************************************)
NewLifeFishManager ==
    [lifeFishActive |-> FALSE, lifeFishSpawnedThisLevel |-> FALSE,
     lifeFishSpawnTimer |-> 0, lifeFishSpawnDelay |-> 0]

NewTurtleManager ==
    [turtleSpawnedThisLevel |-> FALSE, turtleActive |-> FALSE,
     spawnTimer |-> 0, spawnDelay |-> 0, readyToSpawn |-> FALSE]

NoCallbacks == [frames |-> 0, restarts |-> 0]

HiddenOverlays ==
    [start |-> FALSE, story |-> FALSE, pause |-> FALSE, gameover |-> FALSE]

(***************************************************************************)
(* entities.js                                                             *)
(***************************************************************************)
IsLifeFish(e) == e.variant = "lifeFish"
IsTurtle(e) == e.variant = "turtle"

\* positionElement: the element's transform follows the entity's centre.
positionElement(e) ==
    [e EXCEPT !.elX = e.x - (e.width \div 2), !.elY = e.y - (e.height \div 2)]

\* A removal that detaches an attached element and puts a detached one back;
\* the variant against which C31 is tested.
removeEntity_Toggle(e) == [e EXCEPT !.attached = ~e.attached]

\* removeEntity: detaches the element if it still has a parent.
removeEntity(e) == IF e.attached THEN [e EXCEPT !.attached = FALSE] ELSE e

\* A new entity object with its element appended to the entities layer.
NewEntity(id, variant, x, y, vx, vy, w, h) ==
    [id |-> id, variant |-> variant, x |-> x, y |-> y, vx |-> vx, vy |-> vy,
     width |-> w, height |-> h, alive |-> TRUE, dead |-> FALSE,
     capturing |-> FALSE, originalVx |-> vx, attached |-> TRUE,
     elX |-> 0, elY |-> 0,
     sinkReg |-> "none", sinkT0 |-> 0, sinkStartY |-> 0, sinkDuration |-> 0,
     capTimer |-> 0 - 1, capReg |-> "none", capT0 |-> 0,
     boundsPurges |-> 0, caughtPurges |-> 0]

\* entities.push(entity); the store is capped at MaxEntities records.
Push(S, e) ==
    IF Len(S.entities) < MaxEntities
    THEN {[S EXCEPT !.entities = Append(@, e)]}
    ELSE {}

\* clearEntities: every element removed, the array emptied.
clearEntities(S) == [S EXCEPT !.entities = << >>]

SetEntity(S, i, e) == [S EXCEPT !.entities[i] = e]

(***************************************************************************)
(* tilemap.js: createMap and TileMapRenderer                               *)
(***************************************************************************)
Cells == (0..(MapCols - 1)) \X (0..(MapRows - 1))

\* createMap(columns, rows, tiles): the grid with its row-major tile ids.
createMap(columns, rows, tiles) ==
    [columns |-> columns, rows |-> rows, tiles |-> tiles]

NoMap == createMap(0, 0, << >>)

getTile(map, col, row) ==
    IF col < 0 \/ col >= map.columns \/ row < 0 \/ row >= map.rows THEN 0
    ELSE map.tiles[row * map.columns + col + 1]

\* A write that checks the place in the array and not the column and the
\* row; the variant against which C33 is tested.
setTile_FlatCheck(map, col, row, tileId) ==
    IF row * map.columns + col + 1 \in 1..Len(map.tiles)
    THEN [map EXCEPT !.tiles[row * map.columns + col + 1] = tileId]
    ELSE map

setTile(map, col, row, tileId) ==
    IF col >= 0 /\ col < map.columns /\ row >= 0 /\ row < map.rows
    THEN [map EXCEPT !.tiles[row * map.columns + col + 1] = tileId]
    ELSE map

\* maps.js: the four layouts, on a grid of MapCols by MapRows (30 by 20 in
\* the source; the clusters of the coral reef lie outside the small grid).
\* No layout has an empty tile.
MapTile(i, col, row) ==
    IF i = 0 THEN ((col + row) % 5) + 1
    ELSE IF i = 1 THEN (IF (row + col) % 2 = 0 THEN (row % 3) + 1 ELSE (col % 3) + 4)
    ELSE IF i = 2 THEN (IF row < 3 THEN 4 ELSE ((col + row * 2) % 6) + 1)
    ELSE (IF row % 3 = 0 THEN 1 ELSE IF row % 3 = 1 THEN 2 ELSE (col % 3) + 3)

getMapByIndex(index) ==
    createMap(MapCols, MapRows,
              [k \in 1..(MapCols * MapRows) |->
                  MapTile(index % MAP_COUNT, (k - 1) % MapCols, (k - 1) \div MapCols)])

\* new TileMapRenderer(tilesetImage, tileSize, tilesPerRow, container).
NewTileMapRenderer(complete) ==
    [present |-> TRUE, complete |-> complete, hasMap |-> FALSE,
     currentMap |-> NoMap, tileElements |-> {}, mapDepthLevel |-> 0,
     viewport |-> [x |-> 0, y |-> 0, width |-> 0, height |-> 0]]

\* main.js before initializeTileMap assigned a renderer, or after it failed.
NoRenderer == [NewTileMapRenderer(FALSE) EXCEPT !.present = FALSE]

TileMapRenderer_setViewport(r, x, y, width, height) ==
    [r EXCEPT !.viewport = [x |-> x, y |-> y, width |-> width, height |-> height]]

TileMapRenderer_clear(r) == [r EXCEPT !.tileElements = {}]

Floor(a, b) == a \div b
Ceil(a, b) == 0 - ((0 - a) \div b)

\* The columns and rows render() visits for the viewport.
TileRange(r) ==
    [startCol |-> Max(0, Floor(r.viewport.x, TILE_SIZE)),
     endCol |-> Min(r.currentMap.columns,
                    Ceil(r.viewport.x + r.viewport.width, TILE_SIZE)),
     startRow |-> Max(0, Floor(r.viewport.y, TILE_SIZE)),
     endRow |-> Min(r.currentMap.rows,
                    Ceil(r.viewport.y + r.viewport.height, TILE_SIZE))]

InRange(g, c) ==
    /\ c[1] >= g.startCol /\ c[1] < g.endCol
    /\ c[2] >= g.startRow /\ c[2] < g.endRow

\* render(): an element for every tile of the range that is not empty, and
\* the elements outside the range dropped.
TileMapRenderer_render(r) ==
    IF ~r.hasMap \/ ~r.complete THEN r
    ELSE LET g == TileRange(r)
             drawn == {c \in Cells :
                         InRange(g, c) /\ getTile(r.currentMap, c[1], c[2]) # 0}
         IN [r EXCEPT !.tileElements =
                 {c \in r.tileElements \cup drawn : InRange(g, c)}]

\* setMap(map): the map is stored, then the read of depthLevel, a name that
\* is bound nowhere in the module, raises a ReferenceError; mapDepthLevel is
\* not assigned, and clear() and render() are not reached.
TileMapRenderer_setMap(r, map) ==
    [r |-> [r EXCEPT !.currentMap = map, !.hasMap = TRUE], threw |-> TRUE]

\* update(): an empty body.
TileMapRenderer_update(r) == r

\* initializeTileMap: the renderer is assigned, its viewport set, and the
\* error of the first setMap is caught and logged.
InitialisedRenderer(w) ==
    TileMapRenderer_setMap(
        TileMapRenderer_setViewport(NewTileMapRenderer(TRUE), 0, 0, w.width, w.height),
        getMapByIndex(0)).r

(***************************************************************************)
(* lifeFish.js: LifeFishManager                                            *)
(***************************************************************************)
LifeFishDelays == {LIFE_DELAY_MIN + r * LIFE_DELAY_SPAN : r \in LifeDelayDraws}

LifeFish_reset(m) == NewLifeFishManager

LifeFish_resetForNewLevel(m) ==
    [m EXCEPT !.lifeFishSpawnedThisLevel = FALSE,
              !.lifeFishSpawnTimer = 0,
              !.lifeFishSpawnDelay = 0]

\* An eligibility that forgets the bonus target of the level; the variant
\* against which C26 is tested.
shouldSpawnLifeFish_AnyNumber(S) ==
    /\ S.lives < MAX_LIVES
    /\ ~S.lifeFishManager.lifeFishActive

shouldSpawnLifeFish(S) ==
    /\ S.lives < MAX_LIVES
    /\ ~S.lifeFishManager.lifeFishSpawnedThisLevel
    /\ ~S.lifeFishManager.lifeFishActive

\* The set of [s, ready] pairs updateSpawnTimer(dt, lives, maxLives, rand)
\* can produce: the delay is drawn when it is still 0.
LifeFish_updateSpawnTimer(S, dt) ==
    LET m == S.lifeFishManager IN
    IF shouldSpawnLifeFish(S)
    THEN {[s |-> [S EXCEPT !.lifeFishManager =
                      [m EXCEPT !.lifeFishSpawnDelay = d,
                                !.lifeFishSpawnTimer = m.lifeFishSpawnTimer + dt]],
           ready |-> m.lifeFishSpawnTimer + dt >= d]
          : d \in (IF m.lifeFishSpawnDelay = 0 THEN LifeFishDelays
                                               ELSE {m.lifeFishSpawnDelay})}
    ELSE {[s |-> S, ready |-> FALSE]}

LifeFish_markSpawnedThisLevel(S) ==
    [S EXCEPT !.lifeFishManager.lifeFishSpawnedThisLevel = TRUE]

\* spawnLifeFish: the entity takes the id it is handed; the caller's counter
\* is not touched here.
spawnLifeFish(S, id, enterFromLeft, r) ==
    LET y == HUD_HEIGHT + 80 + (r * (S.world.height - HUD_HEIGHT)) \div 2
        speed == (PARROT_BASE_SPEED * 18) \div 10
        vx == IF enterFromLeft THEN speed ELSE 0 - speed
        x == IF enterFromLeft THEN 0 - SPAWN_OFFSET ELSE S.world.width + SPAWN_OFFSET
        e == NewEntity(id, "lifeFish", x, y, vx, 0, FISH_WIDTH, FISH_HEIGHT)
    IN {[s EXCEPT !.lifeFishManager.lifeFishActive = TRUE] : s \in Push(S, e)}

handleLifeFishCaught(S) ==
    [S EXCEPT !.lives = Min(MAX_LIVES, S.lives + 1),
              !.lifeFishManager.lifeFishActive = FALSE]

handleLifeFishEscaped(S) ==
    [S EXCEPT !.lifeFishManager.lifeFishActive = FALSE]

\* updateLifeFishMovement: the velocity is the entry velocity times a
\* multiplier in [0.4, 1.2] plus a drift of a few px/s; the multiplier is an
\* input, the drift and the vertical wave round to 0 at this resolution.
updateLifeFishMovement(e, pct) ==
    IF ~IsLifeFish(e) \/ ~e.alive \/ e.dead THEN e
    ELSE [e EXCEPT !.vx = (e.originalVx * pct) \div 100, !.vy = 0]

(***************************************************************************)
(* turtle.js: TurtleManager                                                *)
(***************************************************************************)
TurtleDelays == {TURTLE_DELAY_MIN + r * TURTLE_DELAY_SPAN : r \in TurtleDelayDraws}

Turtle_reset(m) == NewTurtleManager

Turtle_resetForNewLevel(m) == Turtle_reset(m)

Turtle_updateSpawnTimer(S, dt) ==
    LET m == S.turtleManager IN
    IF m.turtleSpawnedThisLevel \/ m.turtleActive THEN {S}
    ELSE {[S EXCEPT !.turtleManager =
              [m EXCEPT !.spawnDelay = d,
                        !.spawnTimer = m.spawnTimer + dt,
                        !.readyToSpawn = (m.readyToSpawn \/ m.spawnTimer + dt >= d)]]
          : d \in (IF m.spawnDelay = 0 THEN TurtleDelays ELSE {m.spawnDelay})}

\* spawnTurtle: ambush near the centre, diagonal dash at speed/sqrt(2).
spawnTurtle(S, id, dx, dy) ==
    LET diagSpeed == (PARROT_BASE_SPEED * 707) \div 1000
        e == NewEntity(id, "turtle", S.world.width \div 2, S.world.height \div 2,
                       dx * diagSpeed, dy * diagSpeed, TURTLE_WIDTH, TURTLE_HEIGHT)
    IN {[s EXCEPT !.turtleManager.turtleActive = TRUE] : s \in Push(S, e)}

handleTurtleEscaped(S) == [S EXCEPT !.turtleManager.turtleActive = FALSE]

(***************************************************************************)
(* spawning.js                                                             *)
(***************************************************************************)
\* The pool of variants of a level, and the two ends of it that
\* Math.floor(rand() * length) selects for rand() near 0 and near 1.
FishTypes(lv) ==
    IF lv <= 2 THEN <<"fish1", "fish2", "fish3">>
    ELSE IF lv <= 4 THEN <<"fish1", "fish2", "fish3", "fish4">>
    ELSE IF lv <= 6 THEN <<"fish1", "fish2", "fish3", "fish4", "fish5">>
    ELSE <<"fish1", "fish2", "fish3", "fish4", "fish5", "fish6", "fish7">>

VariantPicks(lv) == {FishTypes(lv)[1], FishTypes(lv)[Len(FishTypes(lv))]}

ActiveFish(S) == Cardinality({i \in 1..Len(S.entities) : S.entities[i].alive})

MaxFish(lv) == BASE_MAX_FISH + ((lv - 1) * 6) \div 10

\* A standard spawn that does not look at the capacity; the variant against
\* which C28 is tested.
SpawnRegular_NoCap(S) ==
    UNION {
        LET y == HUD_HEIGHT + 40 + (r * (S.world.height - HUD_HEIGHT) * 7) \div 10
            speed == (PARROT_BASE_SPEED * (100 + (S.level - 1) * 12) * pct) \div 10000
            vx == IF left THEN speed ELSE 0 - speed
            x == IF left THEN 0 - SPAWN_OFFSET ELSE S.world.width + SPAWN_OFFSET
            e == positionElement(
                   NewEntity(S.nextEntityId, v, x, y, vx, 0, FISH_WIDTH, FISH_HEIGHT))
        IN {[s EXCEPT !.nextEntityId = S.nextEntityId + 1] : s \in Push(S, e)}
        : left \in SideDraws, r \in LaneDraws, pct \in S.budget.speeds,
          v \in VariantPicks(S.level)}

\* A standard target: id from the counter, which the caller stores back.
SpawnRegular(S) ==
    IF ActiveFish(S) >= MaxFish(S.level) THEN {S}
    ELSE UNION {
        LET y == HUD_HEIGHT + 40 + (r * (S.world.height - HUD_HEIGHT) * 7) \div 10
            speed == (PARROT_BASE_SPEED * (100 + (S.level - 1) * 12) * pct) \div 10000
            vx == IF left THEN speed ELSE 0 - speed
            x == IF left THEN 0 - SPAWN_OFFSET ELSE S.world.width + SPAWN_OFFSET
            e == positionElement(
                   NewEntity(S.nextEntityId, v, x, y, vx, 0, FISH_WIDTH, FISH_HEIGHT))
        IN {[s EXCEPT !.nextEntityId = S.nextEntityId + 1] : s \in Push(S, e)}
        : left \in SideDraws, r \in LaneDraws, pct \in S.budget.speeds,
          v \in VariantPicks(S.level)}

\* The bonus branch: spawnLifeFish increments its own copy of the id, and
\* the value returned to the loop is the one that was passed in.
SpawnBonus(S) ==
    UNION {
        {LifeFish_markSpawnedThisLevel(
            [s EXCEPT !.entities[Len(s.entities)] = positionElement(@),
                      !.nextEntityId = S.nextEntityId])
         : s \in spawnLifeFish(S, S.nextEntityId, left, r)}
        : left \in SideDraws, r \in LaneDraws}

\* spawnParrot followed by setNextEntityId(spawnResult.nextEntityId).
spawnParrot(S) ==
    IF shouldSpawnLifeFish(S) THEN SpawnBonus(S) \cup SpawnRegular(S)
    ELSE SpawnRegular(S)

(***************************************************************************)
(* feedback.js                                                             *)
(***************************************************************************)
\* showGameOver: the loop flags drop at once, the overlay follows on a timer.
showGameOver(S) ==
    [S EXCEPT !.running = FALSE, !.paused = TRUE,
              !.gameoverTimer = S.now + GAMEOVER_OVERLAY_DELAY]

(***************************************************************************)
(* gameLoop.js: update(dt), phase by phase                                 *)
(***************************************************************************)
\* showDevelopment: the first milestone not yet shown; none lies within the
\* scores a session of MaxShots shots can reach.
StoryDue(S) == S.running /\ ~S.paused /\ S.score >= STORY_FIRST_THRESHOLD

\* Bonus and hazard timers, then the direct bonus spawn when its timer ran out.
UpdateSpecialSpawns(S, dt) ==
    UNION {
      UNION {
        IF a.ready /\ ~t.lifeFishManager.lifeFishActive
        THEN UNION {
               {LifeFish_markSpawnedThisLevel(
                   [s EXCEPT !.entities[Len(s.entities)] = positionElement(@),
                             !.nextEntityId = t.nextEntityId + 1])
                : s \in spawnLifeFish(t, t.nextEntityId, left, r)}
               : left \in SideDraws, r \in LaneDraws}
        ELSE {t}
        : t \in Turtle_updateSpawnTimer(a.s, dt)}
      : a \in LifeFish_updateSpawnTimer(S, dt)}

\* A decay that drops the streak on every tick of a running timer; the
\* variant against which C8 is tested.
UpdateCombo_Eager(S, dt) ==
    IF S.comboTimer > 0
    THEN [S EXCEPT !.comboTimer = S.comboTimer - dt, !.combo = 0]
    ELSE S

\* A countdown that runs out without clearing the streak; the variant
\* against which C24 is tested.
UpdateCombo_KeepsStreak(S, dt) ==
    IF S.comboTimer > 0
    THEN [S EXCEPT !.comboTimer = S.comboTimer - dt]
    ELSE S

\* The combo countdown.
UpdateCombo(S, dt) ==
    IF S.comboTimer > 0
    THEN [S EXCEPT !.comboTimer = S.comboTimer - dt,
                   !.combo = IF S.comboTimer - dt <= 0 THEN 0 ELSE @]
    ELSE S

UpdateTimers(S, dt) ==
    [S EXCEPT !.timeLeft = @ - dt, !.levelTimer = @ - dt]

\* A level counter that skips a level; the variant against which C12 is tested.
NextLevel_Skip(lv) == lv + 2

\* newLevel = level + 1.
NextLevel(lv) == lv + 1

\* The branch of a level below the last: the level advances, the per-level
\* flags are cleared, and the renderer, if there is one, is handed the next
\* map; setMap raises before update can go on.
AdvanceLevel(S) ==
    LET S1 == [S EXCEPT
                 !.level = NextLevel(S.level),
                 !.timeLeft = LEVEL_DURATION,
                 !.levelTimer = LEVEL_DURATION,
                 !.lifeFishManager = LifeFish_resetForNewLevel(@),
                 !.turtleManager = Turtle_resetForNewLevel(@)]
        sm == TileMapRenderer_setMap(S1.tileMapRenderer,
                                     getMapByIndex((S1.level - 1) % MAP_COUNT))
    IN IF S1.tileMapRenderer.present
       THEN [s |-> [S1 EXCEPT !.tileMapRenderer = sm.r,
                              !.ev.kind = IF sm.threw THEN "frameThrew" ELSE @],
             ended |-> sm.threw]
       ELSE [s |-> S1, ended |-> FALSE]

\* A last level that runs out without ending the session; the variant
\* against which C11 is tested.
LevelTransition_KeepsRunning(S) ==
    IF S.timeLeft <= 0
    THEN IF S.level < MAX_LEVEL
         THEN AdvanceLevel(S)
         ELSE [s |-> [S EXCEPT !.timeLeft = LEVEL_DURATION], ended |-> FALSE]
    ELSE [s |-> S, ended |-> FALSE]

\* [s, ended]: ended when update does not go on to the spawners, because the
\* last level ran out or because setMap raised.
LevelTransition(S) ==
    IF S.timeLeft <= 0
    THEN IF S.level < MAX_LEVEL
         THEN AdvanceLevel(S)
         ELSE [s |-> showGameOver([S EXCEPT !.timeLeft = 0]), ended |-> TRUE]
    ELSE [s |-> S, ended |-> FALSE]

RECURSIVE Pow(_, _)
Pow(b, k) == IF k = 0 THEN 1 ELSE b * Pow(b, k - 1)

LevelSpawnMin(lv) ==
    Max(SPAWN_MIN_FLOOR, (BASE_SPAWN_MIN * Pow(94, lv - 1)) \div Pow(100, lv - 1))
LevelSpawnMax(lv) ==
    Max(SPAWN_MAX_FLOOR, (BASE_SPAWN_MAX * Pow(94, lv - 1)) \div Pow(100, lv - 1))
SpawnIntervals(lv) ==
    {LevelSpawnMin(lv) + r * (LevelSpawnMax(lv) - LevelSpawnMin(lv)) : r \in IntervalDraws}

SpawnPhase(S, dt) ==
    LET S1 == [S EXCEPT !.spawnTimer = @ - dt] IN
    IF S1.spawnTimer <= 0
    THEN {[s EXCEPT !.spawnTimer = t]
          : s \in spawnParrot(S1), t \in SpawnIntervals(S1.level)}
    ELSE {S1}

TurtlePhase(S) ==
    LET m == S.turtleManager IN
    IF ~m.turtleSpawnedThisLevel /\ ~m.turtleActive /\ m.readyToSpawn
    THEN UNION {
           {[s EXCEPT !.entities[Len(s.entities)] = positionElement(@),
                      !.turtleManager.turtleSpawnedThisLevel = TRUE,
                      !.turtleManager.readyToSpawn = FALSE,
                      !.nextEntityId = S.nextEntityId + 1]
            : s \in spawnTurtle(S, S.nextEntityId, dx, dy)}
           : dx \in TurtleDirs, dy \in TurtleDirs}
    ELSE {S}

\* Ambient bubbles are decoration outside the store; only their timer is state.
BubblePhase(S, dt) ==
    IF S.bubbleTimer - dt <= 0 THEN [S EXCEPT !.bubbleTimer = BUBBLE_INTERVAL]
    ELSE [S EXCEPT !.bubbleTimer = @ - dt]

Move(e, dt) ==
    [e EXCEPT !.x = e.x + (e.vx * dt) \div 1000,
              !.y = e.y + (e.vy * dt) \div 1000]

OutOfBounds(e, w) ==
    \/ e.x < 0 - BOUNDS_MARGIN
    \/ e.x > w.width + BOUNDS_MARGIN
    \/ e.y < 0 - BOUNDS_MARGIN
    \/ e.y > w.height + BOUNDS_MARGIN

\* What leaving the bounds costs, by the kind of the entity.
Escaped(S, e) ==
    IF IsLifeFish(e) THEN handleLifeFishEscaped(S)
    ELSE IF IsTurtle(e) THEN handleTurtleEscaped(S)
    ELSE IF ~e.dead THEN [S EXCEPT !.lives = Max(0, S.lives - 1)]
    ELSE S

\* The bounds path of the purge.
PurgeByBounds(e) ==
    [removeEntity(e) EXCEPT !.alive = FALSE, !.boundsPurges = @ + 1]

\* The entity loop, from the last index down; it returns from update when
\* the lives are gone, and the label of the step keeps the index it stopped at.
RECURSIVE EntityLoop(_, _, _)
EntityLoop(S, i, dt) ==
    IF i = 0 THEN {S}
    ELSE LET e == S.entities[i] IN
         IF ~e.alive THEN EntityLoop(S, i - 1, dt)
         ELSE UNION {
                LET m == IF e.dead THEN e
                         ELSE Move(updateLifeFishMovement(e, pct), dt)
                    S1 == IF OutOfBounds(m, S.world)
                          THEN Escaped(SetEntity(S, i, PurgeByBounds(m)), m)
                          ELSE SetEntity(S, i, m)
                IN IF OutOfBounds(m, S.world) /\ S1.lives = 0
                   THEN {showGameOver([S1 EXCEPT !.ev.target = i])}
                   ELSE EntityLoop(S1, i - 1, dt)
                : pct \in (IF IsLifeFish(e) /\ ~e.dead THEN LifeSpeedPcts ELSE {100})}

\* An update that goes on to the spawners and the entity loop after the last
\* level ran out; the variant against which C13 is tested.
update_GoesOn(S, dt) ==
    IF StoryDue(S) THEN {[S EXCEPT !.paused = TRUE]}
    ELSE UNION {
           LET lt == LevelTransition(UpdateTimers(UpdateCombo(a, dt), dt)) IN
           UNION {
             UNION {EntityLoop(BubblePhase(c, dt), Len(c.entities), dt)
                    : c \in TurtlePhase(b)}
             : b \in SpawnPhase(lt.s, dt)}
           : a \in UpdateSpecialSpawns(S, dt)}

\* An update that looks at the countdown after the spawners and the entity
\* loop; the variant against which C23 is tested.
update_ChecksLast(S, dt) ==
    IF StoryDue(S) THEN {[S EXCEPT !.paused = TRUE]}
    ELSE UNION {
           UNION {
             UNION {
               {LevelTransition(d).s
                : d \in EntityLoop(BubblePhase(c, dt), Len(c.entities), dt)}
               : c \in TurtlePhase(b)}
             : b \in SpawnPhase(UpdateTimers(UpdateCombo(a, dt), dt), dt)}
           : a \in UpdateSpecialSpawns(S, dt)}

update(S, dt) ==
    IF StoryDue(S) THEN {[S EXCEPT !.paused = TRUE]}
    ELSE UNION {
           LET lt == LevelTransition(UpdateTimers(UpdateCombo(a, dt), dt)) IN
           IF lt.ended THEN {lt.s}
           ELSE UNION {
                  UNION {EntityLoop(BubblePhase(c, dt), Len(c.entities), dt)
                         : c \in TurtlePhase(b)}
                  : b \in SpawnPhase(lt.s, dt)}
           : a \in UpdateSpecialSpawns(S, dt)}

\* render: the renderer's viewport follows the world, and every entity that
\* is alive is positioned.
render(S) ==
    [S EXCEPT
        !.tileMapRenderer =
            IF @.present
            THEN TileMapRenderer_setViewport(@, 0, 0, S.world.width, S.world.height)
            ELSE @,
        !.entities =
            [i \in 1..Len(S.entities) |->
                IF S.entities[i].alive THEN positionElement(S.entities[i])
                ELSE S.entities[i]]]

requestFrame(S) == [S EXCEPT !.rafNext.frames = @ + 1]

\* An exception left update: the rest of frame() is not run.
Threw(S) == S.ev.kind = "frameThrew"

\* A dt that is the whole time since the last frame; the variant against
\* which C17 is tested.
FrameDt_Unclamped(S, timestamp) ==
    timestamp - (IF S.lastFrameTs = 0 THEN timestamp ELSE S.lastFrameTs)

\* A dt without the baseline of the first frame; the variant against which
\* C32 is tested.
FrameDt_NoBaseline(S, timestamp) == Min(MAX_DT_MS, timestamp - S.lastFrameTs)

\* dt of a frame: the time since the last frame, clamped.
FrameDt(S, timestamp) ==
    Min(MAX_DT_MS,
        timestamp - (IF S.lastFrameTs = 0 THEN timestamp ELSE S.lastFrameTs))

\* A frame that re-registers itself though the session is not running; the
\* variant against which C18 is tested.
FrameIdle_Reschedules(S) == {requestFrame(S)}

\* if (!running) return.
FrameIdle(S) == {S}

\* frame(timestamp).  deltaMs is read back after lastFrameTs was stored.
frame(S, timestamp) ==
    IF ~S.running THEN FrameIdle(S)
    ELSE LET dt == FrameDt(S, timestamp)
             S1 == [S EXCEPT !.lastFrameTs = timestamp]
             deltaMs == timestamp - S1.lastFrameTs
             S2 == IF deltaMs # 0 THEN [S1 EXCEPT !.fps = 1000 \div deltaMs] ELSE S1
             T == IF ~S2.paused
                  THEN {IF Threw(u) THEN u ELSE render(u)
                        : u \in update([S2 EXCEPT !.updatesThisFrame = @ + 1], dt)}
                  ELSE {S2}
         IN {IF Threw(t) THEN t ELSE requestFrame(t) : t \in T}

(***************************************************************************)
(* shooting.js                                                             *)
(***************************************************************************)
\* The label of the last step: what ran, the index of the entity a shot
\* resolved on, and how many entities that are no longer alive the scan
\* passed over although the shot point lay in their box.
Ev(k) == [kind |-> k, target |-> 0, skipped |-> 0]

\* The AABB test of the scan, with its padding.
Inside(e, p) ==
    LET ex == e.x - (e.width \div 2)
        ey == e.y - (e.height \div 2)
    IN /\ p.x >= ex - HIT_PADDING
       /\ p.x <= ex + e.width + HIT_PADDING
       /\ p.y >= ey - HIT_PADDING
       /\ p.y <= ey + e.height + HIT_PADDING

\* A scan that stops at any entity under the point, alive or not; the
\* variant against which C5 is tested.
Scanned_AnyEntity(e, p) == Inside(e, p)

\* Whether the scan stops at an entity.
Scanned(e, p) == e.alive /\ Inside(e, p)

\* The reverse scan: the index of the entity the shot resolves on, 0 if none.
RECURSIVE Scan(_, _, _)
Scan(es, p, i) ==
    IF i = 0 THEN 0
    ELSE IF Scanned(es[i], p) THEN i
    ELSE Scan(es, p, i - 1)

BasePoints(v) ==
    CASE v = "fish1" -> 10
      [] v = "fish2" -> 15
      [] v = "fish3" -> 20
      [] v = "fish4" -> 25
      [] v = "fish5" -> 30
      [] OTHER -> 10

\* A hazard branch without the floor of the score; the variant against
\* which C29 is tested.
HitTurtle_Unclamped(S) ==
    [S EXCEPT !.score = S.score - TURTLE_PENALTY,
              !.combo = 0, !.comboTimer = 0]

\* The hazard branch: penalty, combo reset, the hazard keeps swimming.
HitTurtle(S) ==
    [S EXCEPT !.score = Max(0, S.score - TURTLE_PENALTY),
              !.combo = 0, !.comboTimer = 0]

\* A bonus branch that also scores; the variant against which C30 is
\* tested.
HitLifeFish_Scores(S) ==
    [handleLifeFishCaught(S) EXCEPT !.combo = 0, !.comboTimer = 0,
                                    !.score = @ + BasePoints("lifeFish")]

\* The bonus branch.
HitLifeFish(S) ==
    [handleLifeFishCaught(S) EXCEPT !.combo = 0, !.comboTimer = 0]

\* A standard branch that scores without the streak factor; the variant
\* against which C9 is tested.
HitRegular_NoStreakFactor(S, e) ==
    LET c == S.combo + 1 IN
    [S EXCEPT !.combo = c,
              !.maxCombo = IF c > S.maxCombo THEN c ELSE @,
              !.comboTimer = COMBO_WINDOW,
              !.score = S.score + BasePoints(e.variant) * Max(1, S.level)]

\* The standard branch.
HitRegular(S, e) ==
    LET c == S.combo + 1 IN
    [S EXCEPT !.combo = c,
              !.maxCombo = IF c > S.maxCombo THEN c ELSE @,
              !.comboTimer = COMBO_WINDOW,
              !.score = S.score + BasePoints(e.variant) * Max(1, S.level) * Max(1, c)]

\* A miss branch without the floor of the score; the variant against which
\* C7 is tested.
Miss_Unclamped(S) ==
    [S EXCEPT !.missedShots = @ + 1,
              !.score = S.score - MISS_PENALTY,
              !.combo = 0, !.comboTimer = 0]

\* The miss branch.
Miss(S) ==
    [S EXCEPT !.missedShots = @ + 1,
              !.score = Max(0, S.score - MISS_PENALTY),
              !.combo = 0, !.comboTimer = 0]

\* The removal animation is started: sinkStep registered with the host,
\* catchWithOctopus on a timer.
StartDeathAnimation(S, e) ==
    [e EXCEPT !.dead = TRUE,
              !.sinkReg = "next", !.sinkT0 = S.now, !.sinkStartY = e.y,
              !.sinkDuration = SINK_DURATION,
              !.capTimer = S.now + CAPTURE_DELAY]

\* No rate limit; the variant against which C10 is tested.
Accepted_Always(S) == TRUE

\* Whether a shot at this instant passes the rate limit.
Accepted(S) == S.now - S.lastShotMs >= SHOT_RATE_LIMIT_MS

attemptShot(S, p) ==
    IF ~Accepted(S)
    THEN {[S EXCEPT !.ev = Ev("rejected")]}
    ELSE
      LET S1 == [S EXCEPT !.lastShotMs = S.now, !.totalShots = @ + 1]
          i == Scan(S1.entities, p, Len(S1.entities))
          L(k) == [kind |-> k, target |-> i,
                   skipped |-> Cardinality({j \in (i + 1)..Len(S.entities) :
                                  ~S.entities[j].alive /\ Inside(S.entities[j], p)})]
      IN IF i = 0 THEN {[Miss(S1) EXCEPT !.ev = L("miss")]}
         ELSE LET e == S1.entities[i] IN
              IF IsTurtle(e) THEN {[HitTurtle(S1) EXCEPT !.ev = L("turtleHit")]}
              ELSE IF e.dead THEN {[S1 EXCEPT !.ev = L("dyingHit")]}
              ELSE LET S2 == [S1 EXCEPT !.totalHits = @ + 1, !.fishCaught = @ + 1,
                                        !.entities[i] = StartDeathAnimation(S1, e)]
                   IN IF IsLifeFish(e)
                      THEN {[HitLifeFish(S2) EXCEPT !.ev = L("lifeFishHit")]}
                      ELSE {[HitRegular(S2, e) EXCEPT !.ev = L("fishHit")]}

(***************************************************************************)
(* input.js                                                                *)
(***************************************************************************)
\* A click handler that shoots whatever the session is doing; the variant
\* against which C38 is tested.
handleMouseDown_Unguarded(S, p) == attemptShot(S, p)

\* handleMouseDown: a left click in the game area.
handleMouseDown(S, p) ==
    IF ~S.running \/ S.paused THEN {[S EXCEPT !.ev = Ev("ignored")]}
    ELSE attemptShot(S, p)

\* handleKeyDown with the space key, the crosshair at p.
handleKeyDown(S, p) ==
    IF S.paused THEN {[S EXCEPT !.ev = Ev("ignored")]}
    ELSE IF S.running THEN attemptShot(S, p)
    ELSE {[S EXCEPT !.ev = Ev("ignored")]}

\* sinkStep(nowTs) of entity i: it runs for as long as dead is set.
sinkStep(S, i) ==
    LET e == S.entities[i]
        el == S.now - e.sinkT0
        y == e.sinkStartY + Min(SINK_DISTANCE, (el * SINK_DISTANCE) \div e.sinkDuration)
    IN IF ~e.dead THEN SetEntity(S, i, [e EXCEPT !.sinkReg = "none"])
       ELSE SetEntity(S, i,
              [e EXCEPT !.y = y,
                        !.elY = y - (e.height \div 2),
                        !.sinkReg = IF el < e.sinkDuration THEN "next" ELSE "none"])

\* A capture that lets the target go instead; the variant against which C36
\* is tested.
catchWithOctopus_LetsGo(S, i) ==
    SetEntity(S, i, [S.entities[i] EXCEPT !.capTimer = 0 - 1, !.dead = FALSE])

\* catchWithOctopus(entity), run by the timer of the hit.  A timer that is
\* due runs before the callbacks of the host frame, so the captureStep it
\* registers is run in that frame.
catchWithOctopus(S, i) ==
    LET e == S.entities[i] IN
    IF ~e.dead THEN SetEntity(S, i, [e EXCEPT !.capTimer = 0 - 1])
    ELSE SetEntity(S, i,
           [e EXCEPT !.capTimer = 0 - 1, !.capturing = TRUE,
                     !.capT0 = S.now, !.capReg = "now"])

\* The caught path of the purge, at the end of the capture.
PurgeByCapture(e) ==
    [removeEntity(e) EXCEPT !.alive = FALSE, !.dead = FALSE, !.capturing = FALSE,
                            !.caughtPurges = @ + 1]

\* captureStep(now) of entity i.
captureStep(S, i) ==
    LET e == S.entities[i]
        p == [e EXCEPT !.elX = e.x - (e.width \div 2), !.elY = e.y - (e.height \div 2)]
    IN IF ~e.capturing THEN SetEntity(S, i, [e EXCEPT !.capReg = "none"])
       ELSE IF S.now - e.capT0 < CAPTURE_DURATION
       THEN SetEntity(S, i, [p EXCEPT !.capReg = "next"])
       ELSE SetEntity(S, i, [PurgeByCapture(p) EXCEPT !.capReg = "none"])

(***************************************************************************)
(* lifecycle.js                                                            *)
(***************************************************************************)
start(S) == requestFrame([S EXCEPT !.running = TRUE, !.paused = FALSE])

\* Closures of entities dropped from the store only touch objects that are
\* no longer reachable from the session state; they go with the store.
resetCoreState(S) ==
    [clearEntities(S) EXCEPT
        !.timeLeft = GAME_DURATION_S, !.score = 0, !.lives = MAX_LIVES,
        !.spawnTimer = INITIAL_SPAWN_TIMER, !.bubbleTimer = INITIAL_BUBBLE_TIMER,
        !.nextEntityId = 1, !.lastFrameTs = 0, !.level = 1,
        !.levelTimer = LEVEL_DURATION, !.combo = 0, !.maxCombo = 0,
        !.comboTimer = 0, !.totalShots = 0, !.totalHits = 0,
        !.fishCaught = 0, !.missedShots = 0]

pauseGame(S, forceMenu) ==
    [S EXCEPT !.paused = TRUE, !.overlays.pause = (@ \/ forceMenu)]

resumeGame(S) == [S EXCEPT !.paused = FALSE, !.overlays.pause = FALSE]

\* restartGame: the loop is re-entered from a closure handed to the host.
restartGame(S) ==
    LET S1 == resetCoreState(
                [S EXCEPT !.lifeFishManager = LifeFish_reset(@),
                          !.turtleManager = Turtle_reset(@)])
    IN [S1 EXCEPT !.overlays.pause = FALSE, !.overlays.gameover = FALSE,
                  !.paused = FALSE, !.running = TRUE,
                  !.rafNext.restarts = @ + 1]

returnToMainMenu(S) ==
    [clearEntities(S) EXCEPT
        !.running = FALSE, !.paused = TRUE,
        !.overlays.pause = FALSE, !.overlays.gameover = FALSE,
        !.overlays.start = TRUE,
        !.timeLeft = GAME_DURATION_S, !.score = 0, !.lives = MAX_LIVES,
        !.level = 1, !.levelTimer = LEVEL_DURATION, !.combo = 0,
        !.maxCombo = 0, !.comboTimer = 0, !.totalShots = 0,
        !.totalHits = 0, !.fishCaught = 0, !.missedShots = 0]

startNewRun(S) ==
    LET S1 == resetCoreState(
                [S EXCEPT !.lifeFishManager = LifeFish_reset(@),
                          !.turtleManager = Turtle_reset(@)])
    IN start([S1 EXCEPT !.overlays = HiddenOverlays])

\* main.js setTileMap(mapIndex): [s, threw].
setTileMap(S, mapIndex) ==
    IF S.tileMapRenderer.present
    THEN LET m == TileMapRenderer_setMap(S.tileMapRenderer, getMapByIndex(mapIndex))
         IN [s |-> [S EXCEPT !.tileMapRenderer = m.r], threw |-> m.threw]
    ELSE [s |-> S, threw |-> FALSE]

\* main.js startNewRun: the wrapper that sets the first map and then starts
\* the run; the run is not started when setTileMap raised.
main_startNewRun(S) ==
    LET t == setTileMap(S, 0) IN
    IF t.threw THEN [t.s EXCEPT !.ev.kind = "newRunThrew"]
    ELSE startNewRun(t.s)

(***************************************************************************)
(* api/server/main.go: scoreStore.  A score is kept with its ID and its     *)
(* value; add stamps it with the time, under the lock, so that the place   *)
(* of a score in the list stands for its CreatedAt.  file is what          *)
(* scores.json holds.                                                      *)
(***************************************************************************)
Clients == 1..NumClients

NoScore == [ID |-> 0, Score |-> 0]

IDs(scores) == {scores[k].ID : k \in 1..Len(scores)}

\* loadFromFile: the largest ID of the file, 0 if it has none above 0.
MaxID(stored) == CHOOSE m \in IDs(stored) \cup {0} : \A n \in IDs(stored) \cup {0} : n <= m

\* newScoreStore(filePath) with loadFromFile.
newScoreStore(stored) ==
    [mu |-> [writer |-> 0, readers |-> {}],
     scores |-> stored,
     nextID |-> IF MaxID(stored) + 1 <= 1 THEN 1 ELSE MaxID(stored) + 1,
     file |-> stored]

\* add, up to the call of persistLocked: [entry, s].
add_append(s, scoreVal) ==
    LET entry == [ID |-> s.nextID, Score |-> scoreVal] IN
    [entry |-> entry,
     s |-> [s EXCEPT !.nextID = @ + 1, !.scores = Append(@, entry)]]

\* persistLocked: the list is written to a temporary file that is renamed
\* over scores.json; whichever step fails, scores.json is left as it was.
persistLocked(s, ok) ==
    [s |-> IF ok THEN [s EXCEPT !.file = s.scores] ELSE s, err |-> ~ok]

\* A rollback that takes the score back and keeps the counter; the variant
\* against which C40 is tested.
add_rollback_KeepsCounter(s) ==
    [s EXCEPT !.scores = SubSeq(@, 1, Len(@) - 1)]

\* add, after persistLocked failed.
add_rollback(s) ==
    [s EXCEPT !.scores = SubSeq(@, 1, Len(@) - 1), !.nextID = @ - 1]

\* sortedScoresLocked: by value, the highest first, then by CreatedAt.
sortedScoresLocked(s) ==
    LET n == Len(s.scores)
        place(k) == 1 + Cardinality({j \in 1..n :
                           \/ s.scores[j].Score > s.scores[k].Score
                           \/ s.scores[j].Score = s.scores[k].Score /\ j < k})
    IN [r \in 1..n |-> s.scores[CHOOSE k \in 1..n : place(k) = r]]

rankForID(sorted, id) ==
    LET at == {i \in 1..Len(sorted) : sorted[i].ID = id} IN
    IF at = {} THEN Len(sorted) ELSE CHOOSE i \in at : \A j \in at : i <= j

computePercentile(rank, total) ==
    IF total <= 0 \/ rank <= 0 THEN 0 ELSE ((rank - 1) * 100) \div total

\* page(page, size): [items, totalItems, totalPages, page].
page(s, pageArg, sizeArg) ==
    LET size == IF sizeArg <= 0 THEN 5 ELSE sizeArg
        pg0 == IF pageArg <= 0 THEN 1 ELSE pageArg
        sorted == sortedScoresLocked(s)
        totalItems == Len(sorted)
        totalPages == IF totalItems > 0 THEN (totalItems + size - 1) \div size ELSE 1
        pg == IF pg0 > totalPages THEN totalPages ELSE pg0
        first == Min((pg - 1) * size, totalItems)
        last == Min(first + size, totalItems)
    IN [items |-> [i \in 1..(last - first) |->
                      [ID |-> sorted[first + i].ID, Score |-> sorted[first + i].Score,
                       Rank |-> first + i]],
        totalItems |-> totalItems, totalPages |-> totalPages, page |-> pg]

\* What a request goroutine holds: where it is in add or page, its
\* arguments, the list and the counter as it found them when it took the
\* lock, what it returned last, and the requests it may still make.
NoReturn ==
    [kind |-> "none", err |-> FALSE, entry |-> NoScore, rank |-> 0,
     percentile |-> 0, items |-> << >>, totalItems |-> 0, totalPages |-> 0,
     page |-> 0]

IdleCall ==
    [pc |-> "idle", scoreVal |-> 0, page |-> 0, size |-> 0, entry |-> NoScore,
     before |-> [scores |-> << >>, nextID |-> 0], ret |-> NoReturn,
     left |-> MaxRequests]

\* The server as the game finds it: no scores, no request under way.
ServerIdle ==
    /\ store = newScoreStore(<< >>)
    /\ calls = [p \in Clients |-> IdleCall]

(***************************************************************************)
(* The host: animation frames, timers, input events.                       *)
(***************************************************************************)
EntityIdx == 1..Len(entities)

TimerDue(t) == t >= 0 /\ t <= now

\* No timer that was due at this instant is still waiting.
TimersFired ==
    /\ ~TimerDue(gameoverTimer)
    /\ \A i \in EntityIdx : ~TimerDue(entities[i].capTimer)

\* Every timer that was due and every callback of the current host frame
\* has run; input events are delivered then.
Drained ==
    /\ TimersFired
    /\ rafNow = NoCallbacks
    /\ \A i \in EntityIdx : entities[i].sinkReg # "now" /\ entities[i].capReg # "now"

\* Something is waiting for the host: a callback or a timer.  Time that
\* passes with nothing scheduled is not counted.
Scheduled ==
    \/ rafNext # NoCallbacks
    \/ gameoverTimer >= 0
    \/ \E i \in EntityIdx : \/ entities[i].sinkReg = "next"
                            \/ entities[i].capReg = "next"
                            \/ entities[i].capTimer >= 0

\* The state a menu operation starts from, one operation of the budget spent.
Op(k) == [Cur EXCEPT !.ev = Ev(k), !.budget.ops = @ - 1, !.budget.busy = TRUE]

\* A menu operation can be delivered.
OpAllowed == Drained /\ (~budget.busy \/ ~Scheduled)

Promote(r) == IF r = "next" THEN "now" ELSE r

\* The session before the first input, apart from the game area, the player
\* and the tile map.
SessionInit ==
    /\ entities = << >>
    /\ nextEntityId = 1
    /\ running = FALSE
    /\ paused = TRUE
    /\ timeLeft = GAME_DURATION_S
    /\ score = 0
    /\ lives = MAX_LIVES
    /\ lastFrameTs = 0
    /\ spawnTimer = 0
    /\ bubbleTimer = 0
    /\ lastShotMs = 0
    /\ level = 1
    /\ levelTimer = LEVEL_DURATION
    /\ combo = 0
    /\ maxCombo = 0
    /\ comboTimer = 0
    /\ totalShots = 0
    /\ totalHits = 0
    /\ fishCaught = 0
    /\ missedShots = 0
    /\ fps = INITIAL_FPS
    /\ lifeFishManager = NewLifeFishManager
    /\ turtleManager = NewTurtleManager
    /\ now = 0
    /\ rafNow = NoCallbacks
    /\ rafNext = NoCallbacks
    /\ overlays = [HiddenOverlays EXCEPT !.start = TRUE]
    /\ gameoverTimer = 0 - 1
    /\ updatesThisFrame = 0
    /\ ev = Ev("init")

Init ==
    /\ SessionInit
    /\ \E s \in Setups :
          /\ world = s.world
          /\ budget = s.budget
          /\ tileset = IF s.tiles THEN "pending" ELSE "failed"
    /\ tileMapRenderer = NoRenderer
    /\ ServerIdle

\* The host starts an animation frame: the callbacks registered so far are
\* the ones it will run, with the frame's timestamp.
BeginHostFrame(gap) ==
    /\ Drained
    /\ TimersFired
    /\ Scheduled
    /\ now + gap <= budget.until
    /\ gap > MAX_DT_MS => budget.stalls > 0
    /\ Commit([Cur EXCEPT
          !.now = now + gap,
          !.budget.stalls = IF gap > MAX_DT_MS THEN @ - 1 ELSE @,
          !.rafNow = rafNext,
          !.rafNext = NoCallbacks,
          !.entities = [i \in EntityIdx |->
                          [entities[i] EXCEPT !.sinkReg = Promote(@),
                                              !.capReg = Promote(@)]],
          !.updatesThisFrame = 0,
          !.budget.busy = FALSE,
          !.ev = Ev("hostFrame")])

FrameCallback ==
    /\ TimersFired
    /\ rafNow.frames > 0
    /\ \E R \in frame([Cur EXCEPT !.rafNow.frames = @ - 1, !.ev = Ev("frame")], now) :
          Commit(R)

RestartClosure ==
    /\ TimersFired
    /\ rafNow.frames = 0
    /\ rafNow.restarts > 0
    /\ Commit(requestFrame([Cur EXCEPT !.rafNow.restarts = @ - 1,
                                       !.ev = Ev("restartClosure")]))

SinkStep(i) ==
    /\ TimersFired
    /\ rafNow = NoCallbacks
    /\ entities[i].sinkReg = "now"
    /\ Commit(sinkStep([Cur EXCEPT !.ev = Ev("sinkStep")], i))

CaptureStep(i) ==
    /\ TimersFired
    /\ rafNow = NoCallbacks
    /\ entities[i].sinkReg # "now"
    /\ entities[i].capReg = "now"
    /\ Commit(captureStep([Cur EXCEPT !.ev = Ev("captureStep")], i))

CaptureTimeout(i) ==
    /\ TimerDue(entities[i].capTimer)
    /\ Commit(catchWithOctopus([Cur EXCEPT !.ev = Ev("captureTimeout")], i))

GameOverOverlayTimeout ==
    /\ TimerDue(gameoverTimer)
    /\ Commit([Cur EXCEPT !.overlays.gameover = TRUE, !.gameoverTimer = 0 - 1,
                          !.ev = Ev("gameoverOverlay")])

\* Where a shot can land: on the centre of an entity of the store, or on
\* open water.
ShotPoints ==
    {[x |-> entities[i].x, y |-> entities[i].y] : i \in EntityIdx} \cup {NoPoint}

\* input.js handleMouseDown / handleKeyDown: a shot only while running and
\* not paused.
MouseDown(p) ==
    /\ Drained
    /\ running /\ ~paused
    /\ Accepted(Cur) => budget.shots > 0
    /\ \E R \in handleMouseDown(Cur, p) \cup handleKeyDown(Cur, p) :
          Commit(IF Accepted(Cur) THEN [R EXCEPT !.budget.shots = @ - 1] ELSE R)

\* A click or a press of the space key by a player who has shots left, while
\* the session is not running or is paused.
IdleInput(p) ==
    /\ Drained
    /\ ~running \/ paused
    /\ budget.shots > 0
    /\ \E R \in handleMouseDown(Cur, p) \cup handleKeyDown(Cur, p) : Commit(R)

\* The pause button and the Escape key.
PauseToggle ==
    /\ OpAllowed
    /\ budget.ops > 0
    /\ running
    /\ IF ~paused
       THEN Commit(pauseGame(Op("pause"), TRUE))
       ELSE Commit(resumeGame(Op("resume")))

ContinueBtn ==
    /\ OpAllowed
    /\ budget.ops > 0
    /\ overlays.pause
    /\ Commit(resumeGame(Op("resume")))

RestartBtn ==
    /\ OpAllowed
    /\ budget.ops > 0
    /\ overlays.pause
    /\ rafNext.frames + rafNext.restarts < MaxPending
    /\ Commit(restartGame(Op("restart")))

MainMenuBtn ==
    /\ OpAllowed
    /\ budget.ops > 0
    /\ overlays.pause
    /\ Commit(returnToMainMenu(Op("menu")))

MainMenuGameoverBtn ==
    /\ OpAllowed
    /\ budget.ops > 0
    /\ overlays.gameover
    /\ Commit(returnToMainMenu(Op("menu")))

RestartGameoverBtn ==
    /\ OpAllowed
    /\ budget.ops > 0
    /\ overlays.gameover
    /\ rafNext.frames + rafNext.restarts < MaxPending
    /\ Commit(main_startNewRun(Op("newRun")))

\* The start button hides the menu and shows the introduction.
StartBtn ==
    /\ OpAllowed
    /\ overlays.start
    /\ Commit([Cur EXCEPT !.overlays.start = FALSE, !.overlays.story = TRUE,
                          !.budget.busy = TRUE, !.ev = Ev("startBtn")])

\* The introduction completed or skipped: handleStoryComplete starts a run.
StoryComplete ==
    /\ OpAllowed
    /\ overlays.story
    /\ rafNext.frames + rafNext.restarts < MaxPending
    /\ Commit(main_startNewRun([Cur EXCEPT !.ev = Ev("newRun"), !.budget.busy = TRUE]))

\* The tileset that initializeTileMap awaits has been generated: the renderer
\* is created and given its viewport and the first map.
TilesetReady ==
    /\ Drained
    /\ tileset = "pending"
    /\ Commit([Cur EXCEPT !.tileset = "ready",
                          !.tileMapRenderer = InitialisedRenderer(world),
                          !.ev = Ev("tilesetReady")])

Next ==
    \/ \E gap \in FrameGaps : BeginHostFrame(gap)
    \/ FrameCallback
    \/ RestartClosure
    \/ \E i \in EntityIdx : SinkStep(i)
    \/ \E i \in EntityIdx : CaptureStep(i)
    \/ \E i \in EntityIdx : CaptureTimeout(i)
    \/ GameOverOverlayTimeout
    \/ \E p \in ShotPoints : MouseDown(p)
    \/ \E p \in ShotPoints : IdleInput(p)
    \/ PauseToggle
    \/ ContinueBtn
    \/ RestartBtn
    \/ MainMenuBtn
    \/ MainMenuGameoverBtn
    \/ RestartGameoverBtn
    \/ StartBtn
    \/ StoryComplete
    \/ TilesetReady

Spec == Init /\ [][Next]_vars

\* A frame callback of the loop is waiting in the host frame under way.
FramePending == TimersFired /\ rafNow.frames > 0

\* The host keeps its promises: animation frames keep coming while something
\* is registered for one, the callbacks of a frame are all run, and a timer
\* that is due fires.  The weak fairness of the frame callback is written
\* out, with FramePending as the condition under which it can run.
HostFairness ==
    /\ WF_vars(\E gap \in FrameGaps : BeginHostFrame(gap))
    /\ ([]<>(~FramePending) \/ []<><<FrameCallback>>_vars)
    /\ WF_vars(RestartClosure)
    /\ WF_vars(\E i \in EntityIdx : SinkStep(i))
    /\ WF_vars(\E i \in EntityIdx : CaptureStep(i))
    /\ WF_vars(\E i \in EntityIdx : CaptureTimeout(i))
    /\ WF_vars(GameOverOverlayTimeout)

\* The sessions followed to their end: the player who uses the menu while
\* the host comes late, the players who shoot while it comes late or while
\* they use the menu, and the player who watches a whole game.
LiveInit ==
    /\ Init
    /\ \/ budget.stalls > 0
       \/ budget.shots > 0 /\ budget.ops > 0
       \/ world = WideWorld

FairSpec == LiveInit /\ [][Next]_vars /\ HostFairness

(***************************************************************************)
(* The tile map on its own: the calls main.js and the map's owner can make *)
(* on the renderer while the start menu is shown.                          *)
(***************************************************************************)
\* The number of cells in which a map differs from the nearest layout of
\* maps.js.
TileEdits(map) ==
    LET diff(i) == Cardinality({c \in Cells :
                       getTile(map, c[1], c[2]) # MapTile(i, c[1], c[2])})
    IN CHOOSE n \in 0..Cardinality(Cells) :
          /\ \E i \in 0..(MAP_COUNT - 1) : diff(i) = n
          /\ \A i \in 0..(MAP_COUNT - 1) : diff(i) >= n

\* main.js resize(): the world takes the size of the game element, the
\* renderer is given the viewport and asked to update.
resize(S, w) ==
    [S EXCEPT !.world = w,
              !.tileMapRenderer =
                  IF @.present
                  THEN TileMapRenderer_update(
                           TileMapRenderer_setViewport(@, 0, 0, w.width, w.height))
                  ELSE @]

TileInit ==
    /\ SessionInit
    /\ world = WideWorld
    /\ budget = WatchBudget
    /\ tileset = "ready"
    /\ tileMapRenderer = InitialisedRenderer(WideWorld)
    /\ ServerIdle

SetMapCall(i) ==
    Commit([setTileMap(Cur, i).s EXCEPT !.ev = Ev("setMap")])

SetViewportCall(v) ==
    Commit([Cur EXCEPT !.tileMapRenderer =
                           TileMapRenderer_setViewport(@, v.x, v.y, v.width, v.height),
                       !.ev = Ev("setViewport")])

SetTileCall(c, id) ==
    LET m == setTile(tileMapRenderer.currentMap, c[1], c[2], id) IN
    /\ tileMapRenderer.hasMap
    /\ TileEdits(m) <= MaxTileEdits
    /\ Commit([Cur EXCEPT !.tileMapRenderer.currentMap = m, !.ev = Ev("setTile")])

RenderCall ==
    Commit([Cur EXCEPT !.tileMapRenderer = TileMapRenderer_render(@),
                       !.ev = Ev("tileRender")])

WindowResize(w) ==
    Commit([resize(Cur, w) EXCEPT !.ev = Ev("resize")])

TileNext ==
    \/ \E i \in 0..(MAP_COUNT - 1) : SetMapCall(i)
    \/ \E v \in Viewports : SetViewportCall(v)
    \/ \E c \in Cells, id \in TileIds : SetTileCall(c, id)
    \/ RenderCall
    \/ \E w \in WindowSizes : WindowResize(w)

TileSpec == TileInit /\ [][TileNext]_vars

(***************************************************************************)
(* The map object on its own: reads and writes at any column and row, in   *)
(* the grid and in a ring of one cell around it.                           *)
(***************************************************************************)
TileCoords == ((0 - 1)..MapCols) \X ((0 - 1)..MapRows)

\* map.setTile(col, row, tileId) on the map the renderer holds.
MapSetTile(c, id) ==
    LET m == setTile(tileMapRenderer.currentMap, c[1], c[2], id) IN
    /\ tileMapRenderer.hasMap
    /\ TileEdits(m) <= MaxMapEdits
    /\ Commit([Cur EXCEPT !.tileMapRenderer.currentMap = m,
                          !.ev = Ev(IF c \in Cells THEN "setTile" ELSE "setTileOutside")])

MapNext ==
    \/ \E i \in 0..(MAP_COUNT - 1) : SetMapCall(i)
    \/ \E c \in TileCoords, id \in TileIds : MapSetTile(c, id)

MapSpec == TileInit /\ [][MapNext]_vars

(***************************************************************************)
(* The score server on its own: request goroutines that call add and page  *)
(* on the one store, a statement at a time.                                *)
(***************************************************************************)
ServerInit ==
    /\ SessionInit
    /\ world = SmallWorld
    /\ budget = WatchBudget
    /\ tileset = "failed"
    /\ tileMapRenderer = NoRenderer
    /\ \E f \in StoredFiles : store = newScoreStore(f)
    /\ calls = [p \in Clients |-> IdleCall]

\* s.mu.Lock() at the head of add.
AddLock(p, v) ==
    /\ calls[p].pc = "idle" /\ calls[p].left > 0
    /\ store.mu.writer = 0 /\ store.mu.readers = {}
    /\ store' = [store EXCEPT !.mu.writer = p]
    /\ calls' = [calls EXCEPT ![p] =
                    [@ EXCEPT !.pc = "add:locked", !.scoreVal = v, !.left = @ - 1,
                              !.before = [scores |-> store.scores,
                                          nextID |-> store.nextID],
                              !.ret = NoReturn]]
    /\ UNCHANGED SessionVars

\* entry := Score{ID: s.nextID, ...}; s.nextID++; s.scores = append(...).
AddAppend(p) ==
    /\ calls[p].pc = "add:locked"
    /\ LET a == add_append(store, calls[p].scoreVal) IN
          /\ store' = a.s
          /\ calls' = [calls EXCEPT ![p] = [@ EXCEPT !.pc = "add:persist",
                                                     !.entry = a.entry]]
    /\ UNCHANGED SessionVars

\* if err := s.persistLocked(); err != nil { roll back; return err }.
AddPersist(p, ok) ==
    /\ calls[p].pc = "add:persist"
    /\ LET r == persistLocked(store, ok) IN
          IF r.err
          THEN /\ store' = add_rollback(r.s)
               /\ calls' = [calls EXCEPT ![p] =
                               [@ EXCEPT !.pc = "add:return",
                                         !.ret = [NoReturn EXCEPT !.kind = "add",
                                                                  !.err = TRUE]]]
          ELSE /\ store' = r.s
               /\ calls' = [calls EXCEPT ![p] = [@ EXCEPT !.pc = "add:rank"]]
    /\ UNCHANGED SessionVars

\* sorted, rank and percentile of the entry; return entry, rank, percentile.
AddRank(p) ==
    /\ calls[p].pc = "add:rank"
    /\ LET sorted == sortedScoresLocked(store)
           rank == rankForID(sorted, calls[p].entry.ID)
       IN calls' = [calls EXCEPT ![p] =
                      [@ EXCEPT !.pc = "add:return",
                                !.ret = [NoReturn EXCEPT
                                           !.kind = "add",
                                           !.entry = calls[p].entry,
                                           !.rank = rank,
                                           !.percentile =
                                               computePercentile(rank, Len(sorted))]]]
    /\ UNCHANGED <<store, SessionVars>>

\* The deferred s.mu.Unlock() of add.
AddUnlock(p) ==
    /\ calls[p].pc = "add:return"
    /\ store' = [store EXCEPT !.mu.writer = 0]
    /\ calls' = [calls EXCEPT ![p] = [@ EXCEPT !.pc = "idle"]]
    /\ UNCHANGED SessionVars

\* s.mu.RLock() at the head of page.
PageRLock(p, a) ==
    /\ calls[p].pc = "idle" /\ calls[p].left > 0
    /\ store.mu.writer = 0
    /\ store' = [store EXCEPT !.mu.readers = @ \cup {p}]
    /\ calls' = [calls EXCEPT ![p] =
                    [@ EXCEPT !.pc = "page:locked", !.page = a.page,
                              !.size = a.size, !.left = @ - 1,
                              !.before = [scores |-> store.scores,
                                          nextID |-> store.nextID],
                              !.ret = NoReturn]]
    /\ UNCHANGED SessionVars

\* The body of page.
PageRead(p) ==
    /\ calls[p].pc = "page:locked"
    /\ LET r == page(store, calls[p].page, calls[p].size) IN
          calls' = [calls EXCEPT ![p] =
                      [@ EXCEPT !.pc = "page:return",
                                !.ret = [NoReturn EXCEPT
                                           !.kind = "page", !.items = r.items,
                                           !.totalItems = r.totalItems,
                                           !.totalPages = r.totalPages,
                                           !.page = r.page]]]
    /\ UNCHANGED <<store, SessionVars>>

\* The deferred s.mu.RUnlock() of page.
PageRUnlock(p) ==
    /\ calls[p].pc = "page:return"
    /\ store' = [store EXCEPT !.mu.readers = @ \ {p}]
    /\ calls' = [calls EXCEPT ![p] = [@ EXCEPT !.pc = "idle"]]
    /\ UNCHANGED SessionVars

ServerNext ==
    \/ \E p \in Clients, v \in ScoreVals : AddLock(p, v)
    \/ \E p \in Clients : AddAppend(p)
    \/ \E p \in Clients, ok \in BOOLEAN : AddPersist(p, ok)
    \/ \E p \in Clients : AddRank(p)
    \/ \E p \in Clients : AddUnlock(p)
    \/ \E p \in Clients, a \in PageArgs : PageRLock(p, a)
    \/ \E p \in Clients : PageRead(p)
    \/ \E p \in Clients : PageRUnlock(p)

ServerSpec == ServerInit /\ [][ServerNext]_vars

(***************************************************************************)
(* Properties.                                                             *)
(***************************************************************************)
AliveLifeFish == {i \in EntityIdx : entities[i].alive /\ IsLifeFish(entities[i])}

AliveTurtles == {i \in EntityIdx : entities[i].alive /\ IsTurtle(entities[i])}

\* C1: within a session no two entities registered in the store share an
\* id, whichever spawn path created them.  (The store is emptied by every
\* session reset, so the entities of the store belong to one session.)
C1_UniqueIds ==
    \A i, j \in EntityIdx : i # j => entities[i].id # entities[j].id

\* C2: at most one bonus target (life fish) is alive in every reachable
\* state, also across a level transition during a removal animation.
C2_OneLifeFishAlive == Cardinality(AliveLifeFish) <= 1

\* C3: at most one hazard (turtle) is alive in every reachable state, also
\* when a level ends while the hazard of that level is still in bounds.
C3_OneTurtleAlive == Cardinality(AliveTurtles) <= 1

\* C4: an entity is purged by the bounds path of the tick or by the caught
\* path of the capture, never by both.
C4_OnePurgePath ==
    \A i \in EntityIdx : entities[i].boundsPurges + entities[i].caughtPurges <= 1

\* The entity a shot at p has to resolve on: the topmost alive entity whose
\* padded box holds p, 0 if there is none.
TopAlive(p) ==
    LET c == {i \in EntityIdx : entities[i].alive /\ Inside(entities[i], p)}
    IN IF c = {} THEN 0 ELSE CHOOSE i \in c : \A j \in c : j <= i

ShotKinds == {"miss", "turtleHit", "dyingHit", "lifeFishHit", "fishHit"}

SessionResets == {"restart", "menu", "newRun"}

\* C5: an entity whose alive flag is false is not moved by a tick, not
\* positioned by render, not selected by a hit scan and does not block the
\* selection of an alive entity under the same point.
C5_NotAliveIsInert ==
    [][/\ \A i \in EntityIdx :
            ~entities[i].alive =>
                /\ ev'.kind = "frame" => entities'[i] = entities[i]
                /\ ev'.kind \in ShotKinds =>
                      ev'.target # i /\ entities'[i] = entities[i]
       /\ \A p \in ShotPoints :
            (MouseDown(p) /\ ev'.kind \in ShotKinds) => ev'.target = TopAlive(p)
      ]_vars

\* C5 witness: a shot was resolved after the scan passed over an entity that
\* is no longer alive and has the shot point in its box.
C5_Witness ==
    /\ ev.kind \in ShotKinds
    /\ ev.skipped > 0
    /\ ev.target > 0 => entities[ev.target].alive

\* C6: at most one frame callback of the loop is pending with the host, and
\* update runs at most once per host frame.
C6_SingleFrameCallback ==
    /\ rafNow.frames + rafNext.frames <= 1
    /\ updatesThisFrame <= 1

\* C7: the score never goes below 0 and the lives stay within 0..max.
C7_ScoreAndLivesInRange ==
    score >= 0 /\ lives >= 0 /\ lives <= MAX_LIVES

\* C7 witness: the lives ran out in a session in which a miss was charged
\* against an empty score.
C7_Witness == lives = 0 /\ missedShots > 0 /\ score = 0

C9_Base(v) ==
    IF v = "fish1" THEN 10 ELSE IF v = "fish2" THEN 15 ELSE IF v = "fish3" THEN 20
    ELSE IF v = "fish4" THEN 25 ELSE IF v = "fish5" THEN 30 ELSE 10

\* C9: a hit on an alive, non-dying standard target adds 1 to the streak,
\* keeps maxCombo at or above it, sets the decay timer to the window and
\* adds base x max(1, level) x max(1, streak) to the score; three such hits
\* on base-10 targets at level 1 from the start of a session give 60 and a
\* maxCombo of 3.
C9_StandardHit ==
    [][/\ \A p \in ShotPoints :
            (/\ MouseDown(p)
             /\ ev'.kind \in ShotKinds
             /\ TopAlive(p) # 0
             /\ ~entities[TopAlive(p)].dead
             /\ ~IsTurtle(entities[TopAlive(p)])
             /\ ~IsLifeFish(entities[TopAlive(p)]))
            => ev'.kind = "fishHit"
       /\ ev'.kind = "fishHit" =>
            LET e == entities[ev'.target] IN
            /\ e.alive /\ ~e.dead /\ ~IsTurtle(e) /\ ~IsLifeFish(e)
            /\ combo' = combo + 1
            /\ maxCombo' >= combo'
            /\ comboTimer' = COMBO_WINDOW
            /\ score' = score + C9_Base(e.variant) * Max(1, level) * Max(1, combo + 1)
            /\ (/\ level = 1 /\ combo' = 3 /\ totalShots' = 3 /\ totalHits' = 3
                /\ \A j \in 1..Len(entities') :
                      (entities'[j].dead \/ entities'[j].caughtPurges > 0)
                         => entities'[j].variant = "fish1")
               => score' = 60 /\ maxCombo' = 3
      ]_vars

\* C9 witness: the third consecutive base-10 hit at level 1.
C9_Witness ==
    /\ ev.kind = "fishHit"
    /\ level = 1 /\ combo = 3 /\ maxCombo = 3 /\ score = 60

\* C10: a shot less than the rate limit after the last accepted one changes
\* nothing; an accepted shot adds exactly 1 to the shots attempted.
C10_RateLimit ==
    [][\A p \in ShotPoints :
          MouseDown(p) =>
             IF now - lastShotMs < SHOT_RATE_LIMIT_MS
             THEN UNCHANGED <<entities, nextEntityId, running, paused, timeLeft,
                              score, lives, lastFrameTs, spawnTimer, bubbleTimer,
                              lastShotMs, level, levelTimer, combo, maxCombo,
                              comboTimer, totalShots, totalHits, fishCaught,
                              missedShots, fps, world, lifeFishManager,
                              turtleManager, now, rafNow, rafNext, overlays,
                              gameoverTimer>>
             ELSE totalShots' = totalShots + 1
      ]_vars

\* C10 witness: a shot was dropped less than the limit after an accepted one.
C10_Witness ==
    /\ ev.kind = "rejected"
    /\ totalShots > 0
    /\ now - lastShotMs < SHOT_RATE_LIMIT_MS

\* A frame callback that runs update: the session is running and not paused.
Tick == ev'.kind \in {"frame", "frameThrew"} /\ running /\ ~paused

\* The entities the bounds path purges in this step.
BoundsPurged ==
    {i \in EntityIdx : entities'[i].boundsPurges > entities[i].boundsPurges}

\* Entity i is where it was, as alive as it was, and was not purged.
Unmoved(i) ==
    /\ entities'[i].x = entities[i].x
    /\ entities'[i].y = entities[i].y
    /\ entities'[i].alive = entities[i].alive
    /\ entities'[i].boundsPurges = entities[i].boundsPurges

\* C11: when the countdown runs out in a tick at the last level, the session
\* stops running, the countdown is left at 0 and the level stays as it was.
C11_FinalLevelExpiry ==
    [][(Tick /\ level = MAX_LEVEL /\ timeLeft - FrameDt(Cur, now) <= 0)
          => (~running' /\ timeLeft' = 0 /\ level' = level)]_vars

\* C11 witness: a tick has ended the game at the last level with lives left.
C11_Witness ==
    /\ ev.kind = "frame" /\ ~running
    /\ level = MAX_LEVEL /\ timeLeft = 0 /\ lives > 0

\* C12: the level stays within 1..MAX_LEVEL; it changes either by +1, in a
\* tick below the last level in which the countdown runs out, or back to 1
\* by a session reset (restart, return to menu, new run).
C12_LevelMonotone ==
    /\ [](level \in 1..MAX_LEVEL)
    /\ [][level' # level =>
            \/ /\ level' = level + 1
               /\ level < MAX_LEVEL
               /\ Tick
               /\ timeLeft - FrameDt(Cur, now) <= 0
            \/ /\ level' = 1
               /\ ev'.kind \in SessionResets]_vars

\* C12 witness: the tick that moved the session to the next level.
C12_Witness ==
    /\ ev.kind = "frame" /\ running
    /\ level = 2 /\ timeLeft = LEVEL_DURATION

C14_EscapeCosts ==
    [][Tick =>
          LET std == {i \in BoundsPurged :
                        ~IsLifeFish(entities[i]) /\ ~IsTurtle(entities[i])}
          IN /\ lives' = Max(0, lives - Cardinality(std))
             /\ (lives' = 0 => ~running')
             /\ (\E i \in BoundsPurged : IsLifeFish(entities[i]))
                    => ~lifeFishManager'.lifeFishActive
             /\ (\E i \in BoundsPurged : IsTurtle(entities[i]))
                    => ~turtleManager'.turtleActive
             /\ \A i \in BoundsPurged :
                    ~entities'[i].alive /\ ~entities'[i].attached]_vars

\* C15: no tick raises an exception.
C15_NoTickThrows == ev.kind # "frameThrew"

\* What a player sees of the entities: their flags and where they are.
EntityFacts ==
    [i \in EntityIdx |->
        <<entities[i].alive, entities[i].dead, entities[i].x, entities[i].y>>]

\* C16: while the session is running but paused, the entities' flags and
\* positions, the score, the lives, the level, the combo and the counters
\* do not change.
C16_PausedIsFrozen ==
    [][(running /\ paused /\ running' /\ paused') =>
          /\ EntityFacts' = EntityFacts
          /\ <<score, lives, level, combo, maxCombo>>' =
                <<score, lives, level, combo, maxCombo>>
          /\ <<totalShots, totalHits, fishCaught, missedShots>>' =
                <<totalShots, totalHits, fishCaught, missedShots>>]_vars

\* The countdowns and the spawn timers of a session.
Timers ==
    <<timeLeft, levelTimer, comboTimer, spawnTimer, bubbleTimer,
      lifeFishManager.lifeFishSpawnTimer, turtleManager.spawnTimer>>

\* A countdown went from a to b in a tick: it ran for at most MAX_DT_MS, or
\* it was set to one of the values in reload.
CountedDown(a, b, reload) == (a - b) \in 0..MAX_DT_MS \/ b \in reload

\* A timer that counts up went from a to b in a tick.
CountedUp(a, b) == (b - a) \in 0..MAX_DT_MS \/ b = 0

\* C17: no timer changes in a step taken while the session is paused, be it
\* a frame or the resume itself, nor in the step that pauses; and a tick
\* moves every timer by at most MAX_DT_MS, however late the frame comes,
\* unless it reloads the timer.
C17_PauseFreezesTimers ==
    [][/\ (running /\ paused /\ ev'.kind \notin SessionResets)
            => Timers' = Timers
       /\ ev'.kind = "pause" => Timers' = Timers
       /\ Tick =>
            /\ CountedDown(timeLeft, timeLeft', {LEVEL_DURATION, 0})
            /\ CountedDown(levelTimer, levelTimer', {LEVEL_DURATION})
            /\ CountedDown(comboTimer, comboTimer', {})
            /\ CountedDown(spawnTimer, spawnTimer', SpawnIntervals(level'))
            /\ CountedDown(bubbleTimer, bubbleTimer', {BUBBLE_INTERVAL})
            /\ CountedUp(lifeFishManager.lifeFishSpawnTimer,
                         lifeFishManager'.lifeFishSpawnTimer)
            /\ CountedUp(turtleManager.spawnTimer, turtleManager'.spawnTimer)
      ]_vars

\* C17 witness: the session was paused and resumed, a frame came late, and
\* a tick has run since with the countdown under way.
C17_Witness ==
    /\ ev.kind = "frame" /\ running /\ ~paused /\ updatesThisFrame = 1
    /\ budget.shots = 0 /\ budget.speeds = SpeedPcts
    /\ budget.ops = MaxOps - 2 /\ budget.stalls = MaxStalls - 1
    /\ rafNext.frames = 1 /\ rafNext.restarts = 0
    /\ timeLeft < GAME_DURATION_S
    /\ level = 1

\* The state of the game, without the host's queues and the labels.
GameState ==
    <<entities, nextEntityId, running, paused, timeLeft, score, lives,
      lastFrameTs, spawnTimer, bubbleTimer, lastShotMs, level, levelTimer,
      combo, maxCombo, comboTimer, totalShots, totalHits, fishCaught,
      missedShots, fps, world, lifeFishManager, turtleManager,
      tileMapRenderer, overlays, gameoverTimer>>

\* C18: a frame callback that arrives while the session is not running
\* changes nothing and registers no further callback.
C18_IdleFrameIsNoOp ==
    [][(ev'.kind = "frame" /\ ~running)
          => (GameState' = GameState /\ rafNext' = rafNext)]_vars

\* C18 witness: a frame callback has run in a host frame without update
\* being called, and the session is not running.
C18_Witness == ev.kind = "frame" /\ ~running /\ updatesThisFrame = 0

\* The coordinates of the tiles that are not empty and intersect the
\* viewport of the renderer.
VisibleTiles ==
    {c \in Cells : /\ InRange(TileRange(tileMapRenderer), c)
                   /\ getTile(tileMapRenderer.currentMap, c[1], c[2]) # 0}

Renderable == tileMapRenderer.hasMap /\ tileMapRenderer.complete

\* C19: after render() with a map and a loaded tileset, the cached tile
\* surfaces are exactly the tiles that are not empty and intersect the
\* viewport last set, whatever setMap, setViewport, setTile and render calls
\* came before.
C19_CacheIsVisibleTiles ==
    (ev.kind = "tileRender" /\ Renderable)
        => tileMapRenderer.tileElements = VisibleTiles

\* C20: after a resize, before any tick, the cached tile surfaces are the
\* tiles that are not empty and intersect the new viewport.
C20_ResizeRefreshesCache ==
    (ev.kind = "resize" /\ Renderable)
        => tileMapRenderer.tileElements = VisibleTiles

\* C21: after a level transition to level L the renderer's depth level is
\* (L - 1) mod MAP_COUNT, the index of the map selected, and the depth level
\* is always one of 0..3.
C21_DepthFollowsLevel ==
    [][/\ tileMapRenderer'.mapDepthLevel \in 0..3
       /\ (ev'.kind \in {"frame", "frameThrew"} /\ level' = level + 1
              /\ tileMapRenderer'.present)
             => tileMapRenderer'.mapDepthLevel = (level' - 1) % MAP_COUNT]_vars

\* C22: while a session is running, the map of the renderer is the layout
\* with index (level - 1) mod MAP_COUNT.
C22_MapFollowsLevel ==
    (running /\ tileMapRenderer.present /\ tileMapRenderer.hasMap)
        => tileMapRenderer.currentMap = getMapByIndex((level - 1) % MAP_COUNT)

\* The horizontal speed spawnParrot gives a standard target at a level.
LevelSpeeds(lv) ==
    {(PARROT_BASE_SPEED * (100 + (lv - 1) * 12) * pct) \div 10000
     : pct \in budget.speeds}

Abs(n) == IF n < 0 THEN 0 - n ELSE n

\* The entities a step added to the store that are standard targets.
NewStandard ==
    {j \in (Len(entities) + 1)..Len(entities') :
        ~IsLifeFish(entities'[j]) /\ ~IsTurtle(entities'[j])}

\* The countdown runs out in the tick that is about to run.
Expiring == Tick /\ timeLeft - FrameDt(Cur, now) <= 0

C24_StreakHasCountdown == combo > 0 => comboTimer > 0

\* C24 witness: a tick has counted the decay of a live streak down without
\* ending it.
C24_Witness ==
    /\ ev.kind = "frame" /\ updatesThisFrame > 0
    /\ combo > 0 /\ comboTimer > 0 /\ comboTimer < COMBO_WINDOW

\* The bonus targets a step added to the store.
NewLifeFish ==
    {j \in (Len(entities) + 1)..Len(entities') : IsLifeFish(entities'[j])}

\* C25: a tick spawns a bonus target only when the delay drawn at the start
\* of its eligibility, at least LIFE_DELAY_MIN, has been counted off since
\* then, whichever path spawns it.  (A tick that also advances the level
\* clears the timer and is left out.)
C25_BonusWaitsItsDelay ==
    [][(NewLifeFish # {} /\ level' = level) =>
          /\ lifeFishManager'.lifeFishSpawnDelay >= LIFE_DELAY_MIN
          /\ lifeFishManager'.lifeFishSpawnTimer
                >= lifeFishManager'.lifeFishSpawnDelay]_vars

\* C26: a bonus target is spawned only from a state with lives below the
\* cap, no bonus target active (none flagged by the manager, none swimming
\* in the store) and none spawned yet in the level the spawn
\* belongs to; the mark of the level is kept until the level changes or the
\* session is reset, so a level sees at most one.
C26_BonusEligibility ==
    [][/\ NewLifeFish # {} =>
            /\ Cardinality(NewLifeFish) = 1
            /\ lives < MAX_LIVES
            /\ ~lifeFishManager.lifeFishActive
            /\ \A i \in AliveLifeFish : entities[i].dead
            /\ ~lifeFishManager.lifeFishSpawnedThisLevel \/ level' # level
       /\ (lifeFishManager.lifeFishSpawnedThisLevel /\ level' = level
             /\ ev'.kind \notin SessionResets)
            => lifeFishManager'.lifeFishSpawnedThisLevel]_vars

\* C26 witness: the second level has spawned its bonus target after the
\* first level had spawned one.
C26_Witness ==
    /\ ev.kind = "frame" /\ level = 2
    /\ lifeFishManager.lifeFishSpawnedThisLevel
    /\ Cardinality({i \in EntityIdx : IsLifeFish(entities[i])}) = 2

\* The hazards a step added to the store.
NewTurtles ==
    {j \in (Len(entities) + 1)..Len(entities') : IsTurtle(entities'[j])}

\* C27: a hazard is spawned only when none is active, by the manager's flag
\* and in the store, and none was spawned in the level, with its delay, at least TURTLE_DELAY_MIN and counted from
\* the start of the level, run out; the mark of the level is kept until the
\* level changes or the session is reset; and a tick that leaves the
\* session running with the delay run out has spawned the hazard.
C27_HazardOncePerLevel ==
    [][/\ NewTurtles # {} =>
            /\ Cardinality(NewTurtles) = 1
            /\ level' = level
            /\ ~turtleManager.turtleActive
            /\ AliveTurtles = {}
            /\ ~turtleManager.turtleSpawnedThisLevel
            /\ turtleManager'.spawnDelay >= TURTLE_DELAY_MIN
            /\ turtleManager'.spawnTimer >= turtleManager'.spawnDelay
            /\ turtleManager'.spawnTimer <= LEVEL_DURATION - timeLeft'
       /\ (turtleManager.turtleSpawnedThisLevel /\ level' = level
             /\ ev'.kind \notin SessionResets)
            => turtleManager'.turtleSpawnedThisLevel
       /\ (Tick /\ running' /\ ev'.kind = "frame"
             /\ turtleManager'.spawnDelay # 0
             /\ turtleManager'.spawnTimer >= turtleManager'.spawnDelay)
            => turtleManager'.turtleSpawnedThisLevel]_vars

\* The standard targets of the store that are alive.
AliveStandard ==
    {i \in EntityIdx : /\ entities[i].alive
                       /\ ~IsLifeFish(entities[i]) /\ ~IsTurtle(entities[i])}

\* C28: a standard target is spawned, one at a time, only when fewer alive
\* standard targets than the capacity of the level are in the store, and
\* after every step the alive standard targets are no more than the
\* capacity of the level.
C28_StandardCapacity ==
    [][/\ NewStandard # {} =>
            /\ Cardinality(NewStandard) = 1
            /\ Cardinality(AliveStandard) < MaxFish(level')
       /\ Cardinality({i \in 1..Len(entities') :
                          /\ entities'[i].alive
                          /\ ~IsLifeFish(entities'[i]) /\ ~IsTurtle(entities'[i])})
             <= MaxFish(level')]_vars

\* C28 witness: after a tick the store holds as many alive standard targets
\* as the level allows, with the spawn timer reloaded since, and earlier
\* targets already gone.
C28_Witness ==
    /\ ev.kind = "frame" /\ running
    /\ Cardinality(AliveStandard) = MaxFish(level)
    /\ \E i \in EntityIdx : ~entities[i].alive
    /\ \A i \in EntityIdx : ~IsLifeFish(entities[i]) /\ ~IsTurtle(entities[i])

\* C29: an accepted shot that resolves on a hazard takes TURTLE_PENALTY off
\* the score, not below 0, and resets the streak; the hazard stays alive
\* and not dying where it was with the velocity it had, and the lives and
\* the hit and caught counters are as before.
C29_HazardHit ==
    [][ev'.kind = "turtleHit" =>
          /\ IsTurtle(entities[ev'.target])
          /\ score' = Max(0, score - TURTLE_PENALTY)
          /\ combo' = 0
          /\ entities' = entities
          /\ entities'[ev'.target].alive /\ ~entities'[ev'.target].dead
          /\ lives' = lives
          /\ totalHits' = totalHits /\ fishCaught' = fishCaught
          /\ totalShots' = totalShots + 1]_vars

\* C29 witness: a hazard was hit after a standard target had been caught.
C29_Witness ==
    /\ ev.kind = "turtleHit" /\ totalHits > 0
    /\ combo = 0
    /\ entities[ev.target].alive /\ ~entities[ev.target].dead

\* C30: an accepted shot that resolves on a bonus target that is alive and
\* not dying adds a life, up to MAX_LIVES, resets the streak, leaves the
\* score as it was and makes the target dying.
C30_BonusHit ==
    [][ev'.kind = "lifeFishHit" =>
          /\ IsLifeFish(entities[ev'.target])
          /\ entities[ev'.target].alive /\ ~entities[ev'.target].dead
          /\ lives' = Min(MAX_LIVES, lives + 1)
          /\ combo' = 0
          /\ score' = score
          /\ entities'[ev'.target].alive /\ entities'[ev'.target].dead]_vars

\* C30 witness: a bonus target was hit and is dying, and the lives are back
\* above the count that made it eligible.
C30_Witness ==
    /\ ev.kind = "lifeFishHit"
    /\ IsLifeFish(entities[ev.target]) /\ entities[ev.target].dead
    /\ lives >= 2 /\ combo = 0

\* The entities of the store that were purged, by either path.
Purged == {i \in EntityIdx : entities[i].boundsPurges + entities[i].caughtPurges > 0}

\* C31: removing an entity whose element is already detached is a no-op:
\* removeEntity applied twice gives what it gives applied once, and an entity
\* that was purged, once or twice, is off the render surface and not alive.
C31_PurgeIdempotent ==
    /\ \A i \in EntityIdx :
          /\ removeEntity(removeEntity(entities[i])) = removeEntity(entities[i])
          /\ ~entities[i].attached => removeEntity(entities[i]) = entities[i]
    /\ \A i \in Purged : ~entities[i].attached /\ ~entities[i].alive

\* C31 witness: an entity was purged by the bounds path and by the caught
\* path, so removeEntity ran on it twice.
C31_Witness ==
    \E i \in Purged :
        /\ entities[i].boundsPurges > 0 /\ entities[i].caughtPurges > 0
        /\ ~entities[i].attached

\* The delta of a frame as stated: nothing in the first frame of a session,
\* the time since the frame before, at most MAX_DT_MS, in every other.
StatedDelta == IF lastFrameTs = 0 THEN 0 ELSE Min(MAX_DT_MS, now - lastFrameTs)

\* A step that starts or restarts a session.
SessionStart == ev'.kind \in {"restart", "newRun"} /\ running'

C33_TileAccess ==
    [][LET old == tileMapRenderer.currentMap
           new == tileMapRenderer'.currentMap
       IN /\ \A d \in TileCoords \ Cells : getTile(new, d[1], d[2]) = 0
          /\ \A d \in Cells :
                getTile(new, d[1], d[2]) = new.tiles[d[2] * new.columns + d[1] + 1]
          /\ \A c \in TileCoords, id \in TileIds :
                (/\ ev'.kind = (IF c \in Cells THEN "setTile" ELSE "setTileOutside")
                 /\ MapSetTile(c, id)) =>
                   /\ c \notin Cells => new = old
                   /\ c \in Cells => getTile(new, c[1], c[2]) = id
                   /\ \A d \in TileCoords :
                         d # c => getTile(new, d[1], d[2]) = getTile(old, d[1], d[2])
      ]_vars

\* C33 witness: a write outside the grid was made on a map that carries
\* tiles written before.
C33_Witness ==
    /\ ev.kind = "setTileOutside"
    /\ tileMapRenderer.hasMap
    /\ TileEdits(tileMapRenderer.currentMap) = MaxMapEdits

\* A step in which a shot passed the rate limit.
AcceptedShot == ev'.kind \in ShotKinds /\ totalShots' = totalShots + 1

\* C34: every accepted shot resolves as exactly one of hazard hit, bonus
\* hit, standard hit or miss, also when the first entity under the point is
\* already dying: the step counts one hit, or one miss, or is a hazard hit,
\* so that the shots attempted are the hazard hits, the target hits and the
\* misses together.
C34_ShotResolves ==
    [][AcceptedShot =>
          /\ ev'.kind \in {"turtleHit", "lifeFishHit", "fishHit", "miss"}
          /\ (totalHits' - totalHits) + (missedShots' - missedShots)
                + (IF ev'.kind = "turtleHit" THEN 1 ELSE 0) = 1
          /\ ev'.kind \in {"lifeFishHit", "fishHit"} <=> totalHits' = totalHits + 1
          /\ ev'.kind = "miss" <=> missedShots' = missedShots + 1
      ]_vars

\* C35: a purge takes the record of the entity out of the store: every
\* record of the store is of an entity that is alive, swimming or in its
\* removal animation, so that the store does not grow with the entities
\* spawned in the session.
C35_StoreHoldsLive ==
    /\ \A i \in EntityIdx : entities[i].alive
    /\ Purged = {}

\* Entity i of the store is in its removal animation.
Dying(i) == i \in EntityIdx /\ entities[i].alive /\ entities[i].dead

\* Entity i was purged, or went with the store at a session reset.
Gone(i) == i \notin EntityIdx \/ ~entities[i].alive

\* The longest a removal animation takes: the frames that cover the delay of
\* the capture and the capture itself, and the frames that may come late.
AnimationSpan ==
    (Ceil(CAPTURE_DELAY, MAX_DT_MS) + Ceil(CAPTURE_DURATION, MAX_DT_MS) + MaxStalls)
        * MAX_DT_MS

\* C36: a standard or bonus target that is hit while alive and not dying
\* starts to sink with its capture on a timer; the capture starts only on a
\* target that is dying, and the caught path purges only a target that is
\* being captured; while it is in the store a dying target does not become
\* alive and not dying again, and a shot that resolves on it scores nothing;
\* and, the host keeping its promises for the length of the animation, the
\* target is purged in the end.
C36_HitTargetsArePurged ==
    /\ [][\A i \in EntityIdx :
            /\ (ev'.kind \in {"fishHit", "lifeFishHit"} /\ ev'.target = i) =>
                  /\ entities[i].alive /\ ~entities[i].dead
                  /\ entities'[i].alive /\ entities'[i].dead
                  /\ ~entities'[i].capturing
                  /\ entities'[i].sinkReg = "next"
                  /\ entities'[i].capTimer = now + CAPTURE_DELAY
            /\ (ev'.kind \notin SessionResets /\ i <= Len(entities')) =>
                  /\ (entities'[i].capturing /\ ~entities[i].capturing)
                        => entities[i].dead
                  /\ entities'[i].caughtPurges > entities[i].caughtPurges
                        => (entities[i].capturing /\ ~entities'[i].alive
                            /\ ~entities'[i].attached)
                  /\ Dying(i) =>
                        /\ entities'[i].alive => entities'[i].dead
                        /\ (ev'.kind \in ShotKinds /\ ev'.target = i) =>
                              /\ score' = score
                              /\ totalHits' = totalHits
                              /\ fishCaught' = fishCaught
                              /\ lives' = lives
         ]_vars
    /\ \A i \in 1..MaxEntities :
          (Dying(i) /\ now + AnimationSpan <= budget.until) ~> Gone(i)

\* C36 witness: a target that was hit has sunk, was captured, and was purged
\* by the caught path alone.
C36_Witness ==
    \E i \in EntityIdx :
        /\ entities[i].caughtPurges = 1 /\ entities[i].boundsPurges = 0
        /\ ~entities[i].alive /\ ~entities[i].dead /\ ~entities[i].attached
        /\ entities[i].y > entities[i].sinkStartY
        /\ totalHits > 0

\* C37: after a frame of the running session that comes d > 0 ms after the
\* frame before, the FPS metric is 1000 / d; a frame with d = 0, such as the
\* first, leaves the metric as it was.
C37_FpsFollowsFrames ==
    [][(ev'.kind \in {"frame", "frameThrew"} /\ running) =>
          LET d == IF lastFrameTs = 0 THEN 0 ELSE now - lastFrameTs IN
          IF d > 0 THEN fps' = 1000 \div d ELSE fps' = fps]_vars

\* The labels of the steps a click or a press of the space key takes.
InputKinds == ShotKinds \cup {"rejected", "ignored"}

\* C38: a click or a press of the space key while the session is not
\* running (before the start, after the game is over, in the menu) or is
\* paused changes neither the score, the combo, the lives, the counters nor
\* the entities, nor anything else of the session.
C38_NoShotUnlessPlaying ==
    [][\A p \in ShotPoints :
          ((MouseDown(p) \/ IdleInput(p)) /\ (~running \/ paused)) =>
              /\ ev'.kind = "ignored"
              /\ GameState' = GameState
              /\ <<rafNow, rafNext, now>>' = <<rafNow, rafNext, now>>]_vars

\* C38 witness: a click was ignored while the session was paused with a
\* target swimming under the crosshair.
C38_Witness ==
    /\ ev.kind = "ignored"
    /\ running /\ paused
    /\ \E i \in EntityIdx : entities[i].alive /\ ~entities[i].dead

\* The time span over which the host is followed has run out: not even the
\* shortest frame gap fits in.
Horizon == now + MAX_DT_MS > budget.until

\* C39: with frames that keep arriving, a running session comes to an end
\* (running = FALSE), at the latest when the countdown of the last level
\* runs out, within the time span over which the host is followed.
C39_SessionEnds == running ~> (~running \/ Horizon)

\* C40: add either appends one score, with an ID that no stored score has,
\* and has it persisted, or fails to persist and returns an error with the
\* list and nextID as they were before the call; whatever the interleaving
\* of add and page requests, no request runs inside an add, a page sees the
\* whole list of a moment at which no add was under way, and outside an add
\* the list is the one on disk.
C40_AddIsAllOrNothing ==
    /\ \A p \in Clients :
          calls[p].pc = "add:return" =>
             IF calls[p].ret.err
             THEN /\ store.scores = calls[p].before.scores
                  /\ store.nextID = calls[p].before.nextID
             ELSE /\ store.scores = Append(calls[p].before.scores, calls[p].ret.entry)
                  /\ calls[p].ret.entry.ID \notin IDs(calls[p].before.scores)
                  /\ store.nextID > calls[p].ret.entry.ID
                  /\ store.file = store.scores
    /\ \A p \in Clients :
          calls[p].pc \in {"add:locked", "add:persist", "add:rank", "add:return"}
             => (store.mu.writer = p /\ store.mu.readers = {})
    /\ \A p \in Clients :
          calls[p].pc \in {"page:locked", "page:return"} =>
             /\ store.mu.writer = 0 /\ p \in store.mu.readers
             /\ store.scores = calls[p].before.scores
             /\ calls[p].pc = "page:return" =>
                   /\ calls[p].ret.totalItems = Len(store.scores)
                   /\ \A i \in 1..Len(calls[p].ret.items) :
                         calls[p].ret.items[i].ID \in IDs(store.scores)
    /\ store.mu.writer = 0 => store.file = store.scores

\* C40 witness: an add has returned its entry after an add of another
\* request had failed and been rolled back.
C40_Witness ==
    \E p, q \in Clients :
        /\ p # q
        /\ calls[p].pc = "add:return" /\ ~calls[p].ret.err
        /\ calls[q].ret.kind = "add" /\ calls[q].ret.err /\ calls[q].pc = "idle"

====
